---- MODULE Spec2Model ----
(***************************************************************************)
(* Sandbox lifecycle controller of the X-CTF platform: the Sandbox and     *)
(* UserSession tables, the container runtime, the per-key volumes, the     *)
(* named Redis locks, the Celery queue and the nftables table "xctf",      *)
(* driven by the HTTP handlers and the Celery tasks of the repository.     *)
(* Every handler is a sequence of steps of one worker process; the steps   *)
(* of different workers interleave.                                        *)
(***************************************************************************)
EXTENDS Integers, Sequences, FiniteSets, TLC

\* ------------------------------------------------------------------ bounds
NumWorkers == 2
NumUsers == 1
NumPorts == 3
MaxSandboxes == 4
MaxSessions == 3
MaxDeliveries == 1
MaxRequests == 4
MaxSandboxRequests == 6
MaxCalls == 3
MaxRuntimeRequests == 5
NumApiPorts == 1
MaxReapRequests == 6
MaxFlagLen == 2
MaxSubmitCalls == 3
MaxHeaderLen == 3
MaxClientIpCalls == 1
MaxRefreshRequests == 4
MaxSignalRequests == 3
MaxRebuildRequests == 4
MaxMismatchRequests == 4
MaxCleanupRequests == 5
MaxDeactivateRequests == 4
MaxTeardownRequests == 5

\* --------------------------------------------------------------- constants
FirstPort == 32768
LastPort == 65535
UnknownChallenge == 99999

Workers == 1..NumWorkers
Users == 1..NumUsers
\* Python None (and every falsy user_id) is 0
None == 0
UserArgs == Users \cup {None}
\* challenge 1 is per-user (static = False), challenge 2 is static
Challenges == {1, 2}
\* challenges 3 and 4 are per-user, 3 lists no port 8000 and 4 no port at all;
\* only callers of the service API ask for them
AllChallenges == Challenges \cup {3, 4}
\* a second user, known to callers of the service API only
AllUsers == Users \cup {NumUsers + 1}
Ips == {"10.0.0.1", "10.0.0.2"}
NoIp == "none"
HostPorts == FirstPort..(FirstPort + NumPorts - 1)
Keys == AllChallenges \X (AllUsers \cup {None})
NoMappings == <<>>
\* the ports the callers of the firewall service pass: one below the range
\* 32768-65535 and the first ports of the range
ApiPorts == (FirstPort - 1)..(FirstPort + NumApiPorts - 1)

\* Challenge.static
static == [c \in AllChallenges |-> c = 2]
\* Challenge.tcp_ports (null for the static challenge)
tcp_ports == [c \in AllChallenges |-> IF c = 1 THEN <<8000, 9000>>
                                     ELSE IF c = 3 THEN <<9000>> ELSE <<>>]

\* Challenge.flag, as a sequence of characters
flag == [c \in AllChallenges |-> IF c = 1 THEN <<"F">> ELSE <<"x", " ">>]

\* the characters of submitted flags and the flags of a given length
Chars == {" ", "\t", "F", "x"}
Whitespace == {" ", "\t"}
Flags == UNION {[1..n -> Chars] : n \in 0..MaxFlagLen}

\* a conversion that leaves the string as it is
Unstripped(s) == s

RECURSIVE LStrip(_)
LStrip(s) == IF s # <<>> /\ Head(s) \in Whitespace THEN LStrip(Tail(s)) ELSE s

RECURSIVE RStrip(_)
RStrip(s) == IF s # <<>> /\ s[Len(s)] \in Whitespace
             THEN RStrip(SubSeq(s, 1, Len(s) - 1)) ELSE s

\* str.strip(): leading and trailing whitespace removed
Strip(s) == RStrip(LStrip(s))

\* ---------------------------------------------------- the client IP of a request
\* the keys of request.META the code reads
MetaKeys == {"HTTP_X_FORWARDED_FOR", "HTTP_X_REAL_IP", "REMOTE_ADDR"}
\* the characters of header values, and the values of a given length
HeaderChars == {" ", ",", "a", "b"}
Headers == UNION {[1..n -> HeaderChars] : n \in 0..MaxHeaderLen}
\* values of X-Real-IP and of the peer address
RealIps == {<<>>, <<" ">>, <<"r">>, <<" ", "r", " ">>}
PeerIps == {<<"p">>}
DefaultIp == <<"0", ".", "0", ".", "0", ".", "0">>

\* request.META with the keys that are present: X, R and P are empty (key
\* absent) or hold the value of the key
MetaOf(X, R, P) ==
  LET val == [k \in MetaKeys |-> IF k = "HTTP_X_FORWARDED_FOR" THEN X
                                 ELSE IF k = "HTTP_X_REAL_IP" THEN R ELSE P]
  IN [k \in {q \in MetaKeys : val[q] # {}} |-> CHOOSE v \in val[k] : TRUE]

Metas == {MetaOf(X, R, P) : X \in {{}} \cup {{v} : v \in Headers},
                            R \in {{}} \cup {{v} : v \in RealIps},
                            P \in {{}} \cup {{v} : v \in PeerIps}}

\* dict.get(key, default)
MetaGet(meta, key, default) == IF key \in DOMAIN meta THEN meta[key] ELSE default

\* str.split(","): the pieces between the commas, empty ones included
RECURSIVE Split(_)
Split(s) ==
  IF \A k \in 1..Len(s) : s[k] # "," THEN <<s>>
  ELSE LET i == CHOOSE k \in 1..Len(s) :
                  s[k] = "," /\ \A j \in 1..(k - 1) : s[j] # ","
       IN <<SubSeq(s, 1, i - 1)>> \o Split(SubSeq(s, i + 1, Len(s)))

\* [ip.strip() for ip in x_forwarded_for.split(",")]
StrippedTokens(s) == [k \in 1..Len(Split(s)) |-> Strip(Split(s)[k])]

\* get_client_ip(request) of the views
GetClientIp(meta) ==
  LET x_forwarded_for == MetaGet(meta, "HTTP_X_FORWARDED_FOR", <<>>)
      ips == StrippedTokens(x_forwarded_for)
      x_real_ip == MetaGet(meta, "HTTP_X_REAL_IP", <<>>)
  IN IF x_forwarded_for # <<>> /\ ips # <<>> /\ ips[1] # <<>> THEN ips[1]
     ELSE IF x_real_ip # <<>> THEN Strip(x_real_ip)
     ELSE MetaGet(meta, "REMOTE_ADDR", DefaultIp)

\* FirewallService.get_client_ip(request)
ServiceGetClientIp(meta) ==
  LET x_forwarded_for == MetaGet(meta, "HTTP_X_FORWARDED_FOR", <<>>)
      ips == StrippedTokens(x_forwarded_for)
      x_real_ip == MetaGet(meta, "HTTP_X_REAL_IP", <<>>)
      remote_addr == MetaGet(meta, "REMOTE_ADDR", <<>>)
  IN IF x_forwarded_for # <<>> /\ ips # <<>> /\ ips[1] # <<>> THEN ips[1]
     ELSE IF x_real_ip # <<>> THEN Strip(x_real_ip)
     ELSE IF remote_addr # <<>> THEN remote_addr
     ELSE DefaultIp

\* ------------------------------------------------- conversions of port values
RECURSIVE Digits(_)
\* str(n): the decimal digits of n, as Docker reports a HostPort
Digits(n) == IF n < 10 THEN <<n>> ELSE Append(Digits(n \div 10), n % 10)

RECURSIVE PyInt(_)
\* int(s) on a decimal string
PyInt(s) == IF Len(s) = 0 THEN 0
            ELSE 10 * PyInt(SubSeq(s, 1, Len(s) - 1)) + s[Len(s)]

\* the values of a port_mappings dict coerced with int(); None and {} give none
MappingPorts(pm) == {PyInt(pm[k]) : k \in DOMAIN pm}

\* every host port of a Sandbox row: container_port and port_mappings values
SandboxPorts(s) == {s.container_port} \cup MappingPorts(s.port_mappings)

\* ------------------------------------------------------------------- names
\* f"sandbox_lock_{challenge.id}" / f"sandbox_lock_{challenge.id}_{user_id}"
LockName(c, uid) == IF static[c] THEN <<c, None>> ELSE <<c, uid>>

\* f"xctf-{challenge.id}-{user_id}" if user_id else f"xctf-{challenge.id}"
ContainerName(c, uid) == <<c, uid>>

\* challenge_{id}_{user}_container.img / challenge_{id}_container.img
VolumeKey(c, uid) == <<c, uid>>

\* the container ports requested from the runtime
ChallengePorts(c) == IF Len(tcp_ports[c]) > 0
                     THEN {tcp_ports[c][i] : i \in 1..Len(tcp_ports[c])}
                     ELSE {8000}

VARIABLES
  challenge_active,  \* Challenge.active of each challenge
  user_banned,       \* User.banned of each user
  sandboxes,    \* Sandbox table: sequence of rows, id = index
  sessions,     \* UserSession table: sequence of rows, id = index
  submissions,  \* Submission table: sequence of rows [user, challenge, correct]
  expiredUpTo,  \* sessions with id <= expiredUpTo have expires_at <= now
  agedUpTo,     \* sandboxes with id <= agedUpTo have created_at <= now - 2h
  containers,   \* container runtime: the containers [id, name, ports, running]
  ncreated,     \* number of containers ever created (the next id)
  volumes,      \* per volume key: image file, mount point dir, mounted
  locks,        \* Redis: lock name -> [held, ttl, owner]
  fw,           \* nftables: table xctf with its two sets and its map
  initialized,  \* FirewallService._initialized of each worker process
  queue,        \* Celery: sandbox id -> pending cleanup_sandbox deliveries
  proc,         \* per worker: the handler it runs, its position and locals
  budget        \* number of requests and tasks that may still be taken up

vars == <<challenge_active, user_banned, sandboxes, sessions, submissions,
          expiredUpTo, agedUpTo, containers, ncreated, volumes, locks, fw,
          initialized, queue, proc, budget>>

\* ---------------------------------------------------------------- firewall
\* the nft commands that create the table and its contents, in order: the
\* table, the map, two sets, the prerouting chain and its four rules, the input
\* chain and its four rules; fw.created counts the ones that have succeeded
CreationCommands == 14

\* initialize_firewall, reached with _initialized False: probe, else create
InitializeFirewall(f) ==
  IF f.table THEN f
  ELSE [table |-> TRUE, created |-> CreationCommands, sandbox_ports |-> {},
        static_ports |-> {}, map |-> {}]

\* add_port_ip_mapping for each port of a set
AddPortIpMapping(f, init, ports, ip) ==
  LET g == IF init THEN f ELSE InitializeFirewall(f)
  IN IF ~g.table THEN g
     ELSE [g EXCEPT !.sandbox_ports = @ \cup ports,
                    !.map = @ \cup (ports \X {ip})]

\* a removal that deletes the entries of the ports for every address
RemovePortEveryIp(f, init, ports, ip) ==
  IF ~init THEN f
  ELSE [f EXCEPT !.map = {e \in @ : e[1] \notin ports}]

\* remove_port_ip_mapping for each port of a set
RemovePortIpMapping(f, init, ports, ip) ==
  IF ~init THEN f
  ELSE [f EXCEPT !.map = @ \ (ports \X {ip})]

\* add_static_port for each port of a set
AddStaticPort(f, init, ports) ==
  LET g == IF init THEN f ELSE InitializeFirewall(f)
  IN IF ~g.table THEN g
     ELSE [g EXCEPT !.static_ports = @ \cup ports]

\* a removal of the rules of a sandbox that does not look at _initialized
RemoveAllUnguarded(f, init, sandbox_port, pm) ==
  LET ports_to_clean == {sandbox_port} \cup MappingPorts(pm)
  IN [f EXCEPT !.sandbox_ports = @ \ ports_to_clean,
               !.static_ports = @ \ ports_to_clean,
               !.map = {e \in @ : e[1] \notin ports_to_clean}]

\* remove_all_port_mappings_for_sandbox(sandbox_port, port_mappings)
RemoveAllPortMappingsForSandbox(f, init, sandbox_port, pm) ==
  IF ~init THEN f
  ELSE LET ports_to_clean == {sandbox_port} \cup MappingPorts(pm)
       IN [f EXCEPT !.sandbox_ports = @ \ ports_to_clean,
                    !.static_ports = @ \ ports_to_clean,
                    !.map = {e \in @ : e[1] \notin ports_to_clean}]

\* remove_static_port for each port of a set
RemoveStaticPort(f, init, ports) ==
  IF ~init THEN f
  ELSE [f EXCEPT !.static_ports = @ \ ports]

\* remove_sandbox_port for each port of a set
RemoveSandboxPort(f, init, ports) ==
  IF ~init THEN f
  ELSE [f EXCEPT !.sandbox_ports = @ \ ports]

\* the ports clean_orphan_ports reads from the listing of sandbox_ports and
\* does not find in active_ports
OrphanPorts(f, active_ports) ==
  LET current_ports == {port \in f.sandbox_ports :
                          FirstPort <= port /\ port <= LastPort}
  IN current_ports \ active_ports

\* clean_orphan_ports(active_ports)
CleanOrphanPorts(f, init, active_ports) ==
  IF ~init \/ ~f.table THEN f
  ELSE LET orphan_ports == OrphanPorts(f, active_ports)
       IN [f EXCEPT !.sandbox_ports = @ \ orphan_ports,
                    !.static_ports = @ \ orphan_ports,
                    !.map = {e \in @ : e[1] \notin orphan_ports}]

\* the number of nft commands initialize_firewall runs: the probe, and the
\* table, the map, two sets, two chains and eight rules if the probe fails
InitializeCommands(f, init) == IF init THEN 0 ELSE IF f.table THEN 1 ELSE 15

\* the number of map entries listed for the ports of a set
MapEntries(f, ports) == Cardinality({e \in f.map : e[1] \in ports})

\* the number of nft commands remove_all_port_mappings_for_sandbox runs
RemoveAllCommands(f, init, sandbox_port, pm) ==
  IF ~init THEN 0
  ELSE LET ports_to_clean == {sandbox_port} \cup MappingPorts(pm)
       IN 1 + 2 * Cardinality(ports_to_clean) + MapEntries(f, ports_to_clean)

\* the number of nft commands clean_orphan_ports runs
CleanOrphanCommands(f, init, active_ports) ==
  IF ~init THEN 0
  ELSE IF ~f.table THEN 1
  ELSE LET orphan_ports == OrphanPorts(f, active_ports)
       IN 1 + 3 * Cardinality(orphan_ports) + MapEntries(f, orphan_ports)

\* verdict of the prerouting/input chains for a TCP packet (dport, saddr)
Accepts(f, port, ip) ==
  \/ ~f.table
  \/ port \notin f.sandbox_ports
  \/ port \in f.static_ports
  \/ <<port, ip>> \in f.map

\* ------------------------------------------------------------------ volumes
\* clean_up_volume: umount (failure tolerated), remove the image file, rmdir
\* the mount point (which fails, and is logged, on a directory still mounted)
CleanUpVolume(v) ==
  LET u == [v EXCEPT !.mounted = FALSE]
  IN [file |-> FALSE, dir |-> IF u.mounted THEN u.dir ELSE FALSE,
      mounted |-> u.mounted]

\* ------------------------------------------------------------------ queries
SandboxIds == 1..Len(sandboxes)
SessionIds == 1..Len(sessions)

Min(S) == CHOOSE x \in S : \A y \in S : x <= y

\* Sandbox.objects.filter(challenge_id=c, active=True[, user_id=uid]).first()
ActiveSandboxIds(c, uid) ==
  {i \in SandboxIds : /\ sandboxes[i].active
                      /\ sandboxes[i].challenge = c
                      /\ (static[c] \/ sandboxes[i].user = uid)}

\* Sandbox.objects.filter(user=u, active=True)
UserSandboxIds(u) == {i \in SandboxIds : sandboxes[i].active /\ sandboxes[i].user = u}

\* UserSession.objects.filter(user=u, active=True)
ActiveSessionIds(u) == {i \in SessionIds : sessions[i].active /\ sessions[i].user = u}

\* Submission.objects.filter(user_id=u, challenge_id=c, correct=True).exists()
Solved(u, c) ==
  \E i \in DOMAIN submissions :
    /\ submissions[i].user = u
    /\ submissions[i].challenge = c
    /\ submissions[i].correct

\* the host ports of the non-static sandboxes among a set of sandbox ids
NonStaticPorts(ids) ==
  UNION {SandboxPorts(sandboxes[i]) : i \in {j \in ids : ~static[sandboxes[j].challenge]}}

\* ------------------------------------------------------------------ workers
IdleProc == [op |-> "idle", pc |-> "idle", c |-> 1, u |-> None, ip |-> NoIp,
             sid |-> 0, cid |-> 0, sess |-> 0, old_ip |-> NoIp, todo |-> <<>>,
             snap |-> {}, res |-> 0, fresh |-> FALSE, early |-> FALSE,
             err |-> "none", call |-> "none", args |-> <<>>, ret |-> FALSE,
             cmds |-> 0, prev |-> {}, msg |-> "", out |-> <<>>, enq |-> {},
             sent |-> 0]

Idle(w) == proc[w].op = "idle"

\* idle worker processes with the same _initialized are interchangeable: the
\* first of them takes the next request or task
Free(w) ==
  /\ Idle(w)
  /\ \A v \in Workers : v < w /\ Idle(v) => initialized[v] # initialized[w]

\* a request or task is taken up
Take == budget > 0 /\ budget' = budget - 1

\* the platform after construction, with room for n requests and tasks
Start(n) ==
  /\ challenge_active = [c \in AllChallenges |-> TRUE]
  /\ user_banned = [u \in AllUsers |-> FALSE]
  /\ sandboxes = <<>>
  /\ sessions = <<>>
  /\ submissions = <<>>
  /\ expiredUpTo = 0
  /\ agedUpTo = 0
  /\ containers = {}
  /\ ncreated = 0
  /\ volumes = [k \in Keys |-> [file |-> FALSE, dir |-> FALSE, mounted |-> FALSE]]
  /\ locks = [k \in Keys |-> [held |-> FALSE, ttl |-> FALSE, owner |-> 0]]
  /\ fw = [table |-> FALSE, created |-> 0, sandbox_ports |-> {},
           static_ports |-> {}, map |-> {}]
  /\ initialized = [w \in Workers |-> FALSE]
  /\ queue = [i \in 1..MaxSandboxes |-> 0]
  /\ proc = [w \in Workers |-> IdleProc]
  /\ budget = n

Init == Start(MaxRequests)

\* ------------------------------------------------------------ step helpers
\* rows a worker may still insert: one for a get_or_create_sandbox call that
\* has not saved its Sandbox, one per listed sandbox for a refresh
Pending(p) == IF p.op = "goc" /\ p.pc # "done" /\ p.sid = 0 THEN 1
              ELSE IF p.op = "refresh" THEN Len(p.todo) ELSE 0

RECURSIVE PendingInserts(_)
PendingInserts(W) ==
  IF W = {} THEN 0
  ELSE LET w == CHOOSE x \in W : TRUE
       IN Pending(proc[w]) + PendingInserts(W \ {w})

Goto(w, pc) == proc' = [proc EXCEPT ![w].pc = pc]

\* an exit of _create_sandbox whose exception leaves get_or_create_sandbox
\* without passing through release_lock
AfterCreateUnreleased(p) ==
  IF p.op # "refresh"
  THEN [p EXCEPT !.pc = IF p.err = "none" THEN "goc_release" ELSE "done"]
  ELSE IF Len(p.todo) > 1
       THEN [p EXCEPT !.pc = "cl_firewall", !.todo = Tail(p.todo),
                      !.sid = p.todo[2], !.u = sandboxes[p.todo[2]].user]
       ELSE [p EXCEPT !.pc = "done", !.todo = <<>>]

\* the end of _create_sandbox, back in its caller: the finally clause of
\* get_or_create_sandbox, or the next (sandbox_id, user_id) of the loop of
\* refresh_sandboxes, which logs an exception and goes on
AfterCreate(p) ==
  IF p.op # "refresh" THEN [p EXCEPT !.pc = "goc_release"]
  ELSE IF Len(p.todo) > 1
       THEN [p EXCEPT !.pc = "cl_firewall", !.todo = Tail(p.todo),
                      !.sid = p.todo[2], !.u = sandboxes[p.todo[2]].user]
       ELSE [p EXCEPT !.pc = "done", !.todo = <<>>]

\* the end of cleanup_sandbox: back to its caller
AfterCleanup(p) == IF p.op = "refresh" THEN "cs_volume" ELSE "done"

\* the elements of a set of numbers in increasing order (primary-key order)
RECURSIVE SortedSeq(_)
SortedSeq(S) == IF S = {} THEN <<>> ELSE <<Min(S)>> \o SortedSeq(S \ {Min(S)})

\* ----------------------------------------------- challenge/views.py, the view
\* start_challenge: the middleware found an active session of the user at the
\* client address, the user has not solved the challenge
StartChallenge(w, u, ip, c) ==
  /\ Free(w)
  /\ challenge_active[c]
  /\ Len(sandboxes) + PendingInserts(Workers) < MaxSandboxes
  /\ \E i \in ActiveSessionIds(u) : sessions[i].ip = ip
  /\ ~Solved(u, c)
  /\ proc' = [proc EXCEPT ![w] = [IdleProc EXCEPT
                !.op = "goc", !.pc = "goc_fast", !.c = c,
                !.u = IF static[c] THEN None ELSE u]]
  /\ Take
  /\ UNCHANGED <<challenge_active, user_banned, sandboxes, sessions,
                 submissions, expiredUpTo, agedUpTo, containers, ncreated,
                 volumes, locks, fw, initialized, queue>>

\* a caller of the service invokes get_or_create_sandbox(challenge, user_id)
\* with a user_id of its choice
CallGetOrCreate(w, c, uid) ==
  /\ Free(w)
  /\ Len(sandboxes) + PendingInserts(Workers) < MaxSandboxes
  /\ proc' = [proc EXCEPT ![w] = [IdleProc EXCEPT
                !.op = "goc", !.pc = "goc_fast", !.c = c, !.u = uid]]
  /\ Take
  /\ UNCHANGED <<challenge_active, user_banned, sandboxes, sessions,
                 submissions, expiredUpTo, agedUpTo, containers, ncreated,
                 volumes, locks, fw, initialized, queue>>

\* ------------------------------------ ChallengeService.get_or_create_sandbox
\* the fast path: an active Sandbox of the key is returned
GocFastPath(w) ==
  LET p == proc[w] IN
  /\ p.pc = "goc_fast"
  /\ IF ~static[p.c] /\ p.u = None
     THEN proc' = [proc EXCEPT ![w].pc = "done", ![w].res = 0]
     ELSE IF ActiveSandboxIds(p.c, p.u) # {}
          THEN proc' = [proc EXCEPT ![w].pc = "done",
                                    ![w].res = Min(ActiveSandboxIds(p.c, p.u))]
          ELSE proc' = [proc EXCEPT ![w].pc = "goc_lock", ![w].fresh = TRUE]
  /\ UNCHANGED <<challenge_active, user_banned, sandboxes, sessions,
                 submissions, expiredUpTo, agedUpTo, containers, ncreated,
                 volumes, locks, fw, initialized, queue, budget>>

\* acquire_lock: SETNX succeeds, the key being absent or dropped by Redis
\* because its TTL ran out before the polling loop of the caller ended
AcquireSetnx(w) ==
  LET p == proc[w]
      name == LockName(p.c, p.u) IN
  /\ p.pc = "goc_lock"
  /\ ~locks[name].held \/ (locks[name].ttl /\ ~p.early)
  /\ locks' = [locks EXCEPT ![name] = [held |-> TRUE, ttl |-> FALSE, owner |-> w]]
  /\ proc' = [proc EXCEPT ![w].pc = "goc_expire", ![w].early = FALSE]
  /\ UNCHANGED <<challenge_active, user_banned, sandboxes, sessions,
                 submissions, expiredUpTo, agedUpTo, containers, ncreated,
                 volumes, fw, initialized, queue, budget>>

\* acquire_lock: every SETNX of the polling loop failed for `timeout` seconds,
\* the key having got its TTL of `timeout` seconds after start_time
AcquireTimeout(w) ==
  LET p == proc[w]
      name == LockName(p.c, p.u) IN
  /\ p.pc = "goc_lock"
  /\ locks[name].held
  /\ p.early
  /\ proc' = [proc EXCEPT ![w].pc = "done", ![w].res = 0, ![w].early = FALSE]
  /\ UNCHANGED <<challenge_active, user_banned, sandboxes, sessions,
                 submissions, expiredUpTo, agedUpTo, containers, ncreated,
                 volumes, locks, fw, initialized, queue, budget>>

\* acquire_lock: EXPIRE after the successful SETNX; the callers polling for
\* the key began before it, so their loops end before the key runs out
AcquireExpire(w) ==
  LET p == proc[w]
      name == LockName(p.c, p.u) IN
  /\ p.pc = "goc_expire"
  /\ locks' = [locks EXCEPT ![name] = IF @.held THEN [@ EXCEPT !.ttl = TRUE] ELSE @]
  /\ proc' = [v \in Workers |->
               IF v = w THEN [p EXCEPT !.pc = "goc_recheck"]
               ELSE IF proc[v].pc = "goc_lock" /\ LockName(proc[v].c, proc[v].u) = name
                    THEN [proc[v] EXCEPT !.early = locks[name].held]
                    ELSE proc[v]]
  /\ UNCHANGED <<challenge_active, user_banned, sandboxes, sessions,
                 submissions, expiredUpTo, agedUpTo, containers, ncreated,
                 volumes, fw, initialized, queue, budget>>

\* the second query, under the lock
GocRecheck(w) ==
  LET p == proc[w] IN
  /\ p.pc = "goc_recheck"
  /\ IF ActiveSandboxIds(p.c, p.u) # {}
     THEN proc' = [proc EXCEPT ![w].pc = "goc_release",
                               ![w].res = Min(ActiveSandboxIds(p.c, p.u))]
     ELSE proc' = [proc EXCEPT ![w].pc = "cs_volume"]
  /\ UNCHANGED <<challenge_active, user_banned, sandboxes, sessions,
                 submissions, expiredUpTo, agedUpTo, containers, ncreated,
                 volumes, locks, fw, initialized, queue, budget>>

\* release_lock in the finally clause: DEL of the key, whoever holds it
ReleaseLock(w) ==
  LET p == proc[w]
      name == LockName(p.c, p.u) IN
  /\ p.pc = "goc_release"
  /\ locks' = [locks EXCEPT ![name] = [held |-> FALSE, ttl |-> FALSE, owner |-> 0]]
  /\ proc' = [proc EXCEPT ![w].pc = "done"]
  /\ UNCHANGED <<challenge_active, user_banned, sandboxes, sessions,
                 submissions, expiredUpTo, agedUpTo, containers, ncreated,
                 volumes, fw, initialized, queue, budget>>

\* the handler has returned; the worker takes the next request or task
Return(w) ==
  /\ proc[w].pc = "done"
  /\ proc' = [proc EXCEPT ![w] = IdleProc]
  /\ UNCHANGED <<challenge_active, user_banned, sandboxes, sessions,
                 submissions, expiredUpTo, agedUpTo, containers, ncreated,
                 volumes, locks, fw, initialized, queue, budget>>

\* --------------------------------------- ChallengeService._create_sandbox
\* create_loop_device and mount_volume: the image file and the mount point of
\* the key are created if missing, and mount(8) refuses an image already
\* mounted on the mount point; on failure the volume of the key is cleaned and
\* the error propagates
CreateVolume(w) ==
  LET p == proc[w]
      k == VolumeKey(p.c, p.u)
      v == volumes[k]
      q == [p EXCEPT !.sid = 0, !.cid = 0, !.err = "none"] IN
  /\ p.pc = "cs_volume"
  /\ IF ~v.mounted
     THEN /\ volumes' = [volumes EXCEPT ![k] =
                 [file |-> TRUE, dir |-> TRUE, mounted |-> TRUE]]
          /\ proc' = [proc EXCEPT ![w] = [q EXCEPT !.pc = "cs_container"]]
     ELSE /\ volumes' = [volumes EXCEPT ![k] =
                 CleanUpVolume([file |-> TRUE, dir |-> TRUE, mounted |-> TRUE])]
          /\ proc' = [proc EXCEPT ![w] = AfterCreate([q EXCEPT !.err = "mount"])]
  /\ UNCHANGED <<challenge_active, user_banned, sandboxes, sessions,
                 submissions, expiredUpTo, agedUpTo, containers, ncreated,
                 locks, fw, initialized, queue, budget>>

\* host ports no running container publishes
FreePorts ==
  HostPorts \ UNION {{c.ports[k] : k \in DOMAIN c.ports} :
                       c \in {d \in containers : d.running}}

\* the publications the runtime may choose for a set of container ports
Publications(cports) ==
  {f \in [cports -> FreePorts] : \A a, b \in cports : a # b => f[a] # f[b]}

\* docker_service.create_container succeeds, the name being free, and
\* wait_for_healthy returns True, or False after its timeout
CreateContainer(w) ==
  LET p == proc[w] IN
  /\ p.pc = "cs_container"
  /\ \A c \in containers : c.name # ContainerName(p.c, p.u)
  /\ \E f \in Publications(ChallengePorts(p.c)), healthy \in BOOLEAN :
       /\ containers' = containers \cup
            {[id |-> ncreated + 1, name |-> ContainerName(p.c, p.u), ports |-> f,
              running |-> TRUE]}
       /\ ncreated' = ncreated + 1
       /\ proc' = [proc EXCEPT ![w].cid = ncreated + 1,
                               ![w].pc = IF healthy THEN "cs_save" ELSE "cs_rollback",
                               ![w].err = IF healthy THEN "none" ELSE "timeout"]
  /\ UNCHANGED <<challenge_active, user_banned, sandboxes, sessions,
                 submissions, expiredUpTo, agedUpTo, volumes, locks, fw,
                 initialized, queue, budget>>

\* docker_service.create_container raises (name in use, no port left):
\* container stays None, the volume of the key is cleaned, the error propagates
CreateContainerFails(w) ==
  LET p == proc[w]
      k == VolumeKey(p.c, p.u) IN
  /\ p.pc = "cs_container"
  /\ \/ \E c \in containers : c.name = ContainerName(p.c, p.u)
     \/ Publications(ChallengePorts(p.c)) = {}
  /\ volumes' = [volumes EXCEPT ![k] = CleanUpVolume(@)]
  /\ proc' = [proc EXCEPT ![w] = AfterCreate([p EXCEPT !.err = "api"])]
  /\ UNCHANGED <<challenge_active, user_banned, sandboxes, sessions,
                 submissions, expiredUpTo, agedUpTo, containers, ncreated,
                 locks, fw, initialized, queue, budget>>

\* the ports of the container object held by the worker
PortsOf(cid) == (CHOOSE c \in containers : c.id = cid).ports

\* the except clause of _create_sandbox with a container: firewall rules of the
\* primary port removed, container stopped and removed, volume cleaned
Rollback(w) ==
  LET p == proc[w]
      k == VolumeKey(p.c, p.u)
      known == \E c \in containers : c.id = p.cid IN
  /\ p.pc = "cs_rollback"
  /\ fw' = IF known /\ 8000 \in DOMAIN PortsOf(p.cid)
           THEN RemoveAllPortMappingsForSandbox(fw, initialized[w],
                                                PortsOf(p.cid)[8000], NoMappings)
           ELSE fw
  /\ containers' = {c \in containers : c.id # p.cid}
  /\ volumes' = [volumes EXCEPT ![k] = CleanUpVolume(@)]
  /\ proc' = [proc EXCEPT ![w] = AfterCreate(p)]
  /\ UNCHANGED <<challenge_active, user_banned, sandboxes, sessions,
                 submissions, expiredUpTo, agedUpTo, ncreated, locks,
                 initialized, queue, budget>>

\* port_mappings = {k.split("/")[0]: v[0]["HostPort"]}: HostPort is a string
PortMappings(ports) == [k \in DOMAIN ports |-> Digits(ports[k])]

\* container.reload(), the 8000/tcp check and sandbox.save()
SaveSandbox(w) ==
  LET p == proc[w]
      known == \E c \in containers : c.id = p.cid IN
  /\ p.pc = "cs_save"
  /\ IF known /\ 8000 \in DOMAIN PortsOf(p.cid)
     THEN /\ sandboxes' = Append(sandboxes,
                 [container_id |-> p.cid,
                  container_port |-> PyInt(Digits(PortsOf(p.cid)[8000])),
                  challenge |-> p.c, user |-> p.u, active |-> TRUE,
                  port_mappings |-> PortMappings(PortsOf(p.cid))])
          /\ proc' = [proc EXCEPT ![w].pc = "cs_firewall",
                                  ![w].sid = Len(sandboxes) + 1]
     ELSE /\ UNCHANGED sandboxes
          /\ proc' = [proc EXCEPT ![w].pc = "cs_rollback", ![w].err = "value"]
  /\ UNCHANGED <<challenge_active, user_banned, sessions, submissions,
                 expiredUpTo, agedUpTo, containers, ncreated, volumes,
                 locks, fw, initialized, queue, budget>>

\* _add_sandbox_firewall_rules(sandbox, challenge)
AddSandboxFirewallRules(w) ==
  LET p == proc[w]
      s == sandboxes[p.sid]
      g == IF initialized[w] THEN fw ELSE InitializeFirewall(fw) IN
  /\ p.pc = "cs_firewall"
  /\ initialized' = [initialized EXCEPT ![w] = TRUE]
  /\ fw' = IF static[p.c]
           THEN AddStaticPort(g, TRUE, SandboxPorts(s))
           ELSE IF s.user = None \/ ActiveSessionIds(s.user) = {}
                THEN g
                ELSE AddPortIpMapping(g, TRUE, SandboxPorts(s),
                                      sessions[Min(ActiveSessionIds(s.user))].ip)
  /\ proc' = [proc EXCEPT ![w] = AfterCreate([p EXCEPT !.res = p.sid])]
  /\ UNCHANGED <<challenge_active, user_banned, sandboxes, sessions,
                 submissions, expiredUpTo, agedUpTo, containers, ncreated,
                 volumes, locks, queue, budget>>

\* the runtime: the process of a running container exits (it ends, crashes or
\* exceeds mem_limit); the container stays, stopped, under its name and its
\* host ports are released
ContainerExits(cid) ==
  /\ \E c \in containers : c.id = cid /\ c.running
  /\ containers' = {IF c.id = cid THEN [c EXCEPT !.running = FALSE] ELSE c :
                      c \in containers}
  /\ Take
  /\ UNCHANGED <<challenge_active, user_banned, sandboxes, sessions,
                 submissions, expiredUpTo, agedUpTo, ncreated, volumes,
                 locks, fw, initialized, queue, proc>>

\* ------------------------------------------------ tasks.cleanup_sandbox
\* a worker takes a queued cleanup_sandbox(sandbox_id) and reads the row
CleanupSandbox(w, sid) ==
  /\ Free(w)
  /\ queue[sid] > 0
  /\ sid \in SandboxIds
  /\ queue' = [queue EXCEPT ![sid] = @ - 1]
  /\ proc' = [proc EXCEPT ![w] = [IdleProc EXCEPT
                !.op = "cleanup", !.pc = "cl_firewall", !.sid = sid,
                !.c = sandboxes[sid].challenge, !.u = sandboxes[sid].user]]
  /\ Take
  /\ UNCHANGED <<challenge_active, user_banned, sandboxes, sessions,
                 submissions, expiredUpTo, agedUpTo, containers, ncreated,
                 volumes, locks, fw, initialized>>

\* cleanup_sandbox(sandbox_id) is invoked with an id of the caller's choice:
\* Sandbox.objects.get raises DoesNotExist for an id without row and the task
\* logs and returns
CallCleanupSandbox(w, sid) ==
  /\ Free(w)
  /\ proc' = [proc EXCEPT ![w] =
                IF sid \in SandboxIds
                THEN [IdleProc EXCEPT !.op = "cleanup", !.pc = "cl_firewall",
                                      !.sid = sid, !.c = sandboxes[sid].challenge,
                                      !.u = sandboxes[sid].user]
                ELSE [IdleProc EXCEPT !.call = "cleanup_sandbox",
                                      !.args = <<sid>>, !.msg = "Sandbox not found"]]
  /\ Take
  /\ UNCHANGED <<challenge_active, user_banned, sandboxes, sessions,
                 submissions, expiredUpTo, agedUpTo, containers, ncreated,
                 volumes, locks, fw, initialized, queue>>

\* firewall_service.remove_all_port_mappings_for_sandbox(port, port_mappings)
CleanupFirewall(w) ==
  LET p == proc[w]
      s == sandboxes[p.sid] IN
  /\ p.pc = "cl_firewall"
  /\ fw' = RemoveAllPortMappingsForSandbox(fw, initialized[w],
                                           s.container_port, s.port_mappings)
  /\ Goto(w, "cl_container")
  /\ UNCHANGED <<challenge_active, user_banned, sandboxes, sessions,
                 submissions, expiredUpTo, agedUpTo, containers, ncreated,
                 volumes, locks, initialized, queue, budget>>

\* a cleanup that gives up when the runtime does not know the container
CleanupContainerStrict(w) ==
  LET p == proc[w]
      known == \E c \in containers : c.id = sandboxes[p.sid].container_id IN
  /\ p.pc = "cl_container"
  /\ containers' = {c \in containers : c.id # sandboxes[p.sid].container_id}
  /\ Goto(w, IF known THEN "cl_save" ELSE "done")
  /\ UNCHANGED <<challenge_active, user_banned, sandboxes, sessions,
                 submissions, expiredUpTo, agedUpTo, ncreated, volumes,
                 locks, fw, initialized, queue, budget>>

\* remove_all_port_mappings_for_sandbox at the grain of its nft commands:
\* "list map" first; a process that is not initialized returns False before it
CleanupFirewallList(w) ==
  LET p == proc[w] IN
  /\ p.pc = "cl_firewall"
  /\ proc' = [proc EXCEPT ![w].pc = IF initialized[w] THEN "cl_fw_delete"
                                    ELSE "cl_container",
                          ![w].prev = IF initialized[w] THEN fw.map ELSE {}]
  /\ UNCHANGED <<challenge_active, user_banned, sandboxes, sessions,
                 submissions, expiredUpTo, agedUpTo, containers, ncreated,
                 volumes, locks, fw, initialized, queue, budget>>

\* then, for each port to clean, the port is deleted from both sets and the
\* entries of the port found in the listing are deleted from the map
CleanupFirewallDelete(w) ==
  LET p == proc[w]
      ports_to_clean == SandboxPorts(sandboxes[p.sid]) IN
  /\ p.pc = "cl_fw_delete"
  /\ fw' = [fw EXCEPT !.sandbox_ports = @ \ ports_to_clean,
                      !.static_ports = @ \ ports_to_clean,
                      !.map = {e \in @ : ~(e[1] \in ports_to_clean /\ e \in p.prev)}]
  /\ proc' = [proc EXCEPT ![w].pc = "cl_container", ![w].prev = {}]
  /\ UNCHANGED <<challenge_active, user_banned, sandboxes, sessions,
                 submissions, expiredUpTo, agedUpTo, containers, ncreated,
                 volumes, locks, initialized, queue, budget>>

\* docker_service.stop_and_remove_container(sandbox.container_id, force=True)
CleanupContainer(w) ==
  LET p == proc[w] IN
  /\ p.pc = "cl_container"
  /\ containers' = {c \in containers : c.id # sandboxes[p.sid].container_id}
  /\ Goto(w, "cl_save")
  /\ UNCHANGED <<challenge_active, user_banned, sandboxes, sessions,
                 submissions, expiredUpTo, agedUpTo, ncreated, volumes,
                 locks, fw, initialized, queue, budget>>

\* a cleanup that also blanks the container_id of the row it deactivates
CleanupSaveClears(w) ==
  LET p == proc[w] IN
  /\ p.pc = "cl_save"
  /\ sandboxes' = [sandboxes EXCEPT ![p.sid].active = FALSE,
                                    ![p.sid].container_id = 0]
  /\ Goto(w, "cl_volume")
  /\ UNCHANGED <<challenge_active, user_banned, sessions, submissions,
                 expiredUpTo, agedUpTo, containers, ncreated, volumes,
                 locks, fw, initialized, queue, budget>>

\* a cleanup that goes on to the volume without saving the row
CleanupSaveSkipped(w) ==
  /\ proc[w].pc = "cl_save"
  /\ Goto(w, "cl_volume")
  /\ UNCHANGED <<challenge_active, user_banned, sandboxes, sessions,
                 submissions, expiredUpTo, agedUpTo, containers, ncreated,
                 volumes, locks, fw, initialized, queue, budget>>

\* sandbox.active = False; sandbox.destroyed_at = now; sandbox.save()
CleanupSave(w) ==
  LET p == proc[w] IN
  /\ p.pc = "cl_save"
  /\ sandboxes' = [sandboxes EXCEPT ![p.sid].active = FALSE]
  /\ Goto(w, "cl_volume")
  /\ UNCHANGED <<challenge_active, user_banned, sessions, submissions,
                 expiredUpTo, agedUpTo, containers, ncreated, volumes,
                 locks, fw, initialized, queue, budget>>

\* sandbox.save() raises a database error: nothing in cleanup_sandbox catches
\* it, and refresh_sandboxes calls cleanup_sandbox outside its try block, so the
\* task ends here
CleanupSaveFails(w) ==
  /\ proc[w].pc = "cl_save"
  /\ proc' = [proc EXCEPT ![w].pc = "done", ![w].err = "db"]
  /\ UNCHANGED <<challenge_active, user_banned, sandboxes, sessions,
                 submissions, expiredUpTo, agedUpTo, containers, ncreated,
                 volumes, locks, fw, initialized, queue, budget>>

\* clean_up_volume(sandbox.challenge_id, sandbox.user_id)
CleanupVolume(w) ==
  LET p == proc[w]
      s == sandboxes[p.sid]
      k == VolumeKey(s.challenge, s.user) IN
  /\ p.pc = "cl_volume"
  /\ volumes' = [volumes EXCEPT ![k] = CleanUpVolume(@)]
  /\ Goto(w, AfterCleanup(p))
  /\ UNCHANGED <<challenge_active, user_banned, sandboxes, sessions,
                 submissions, expiredUpTo, agedUpTo, containers, ncreated,
                 locks, fw, initialized, queue, budget>>

\* ------------------------------------------------ tasks.refresh_sandboxes
\* the challenge is found and active; the ids and users of its active
\* sandboxes are listed, and the cleanup of the first of them runs inline
RefreshSandboxes(w, c) ==
  LET ids == {i \in SandboxIds : sandboxes[i].active /\ sandboxes[i].challenge = c} IN
  /\ Free(w)
  /\ challenge_active[c]
  /\ ids # {}
  /\ Len(sandboxes) + PendingInserts(Workers) + Cardinality(ids) <= MaxSandboxes
  /\ proc' = [proc EXCEPT ![w] = [IdleProc EXCEPT
                !.op = "refresh", !.pc = "cl_firewall", !.c = c,
                !.todo = SortedSeq(ids), !.snap = ids, !.sid = Min(ids),
                !.u = sandboxes[Min(ids)].user]]
  /\ Take
  /\ UNCHANGED <<challenge_active, user_banned, sandboxes, sessions,
                 submissions, expiredUpTo, agedUpTo, containers, ncreated,
                 volumes, locks, fw, initialized, queue>>

\* the challenge is found and not active: the task logs and returns
RefreshInactive(w, c) ==
  /\ Free(w)
  /\ ~challenge_active[c]
  /\ proc' = [v \in Workers |->
               IF v = w THEN [IdleProc EXCEPT !.call = "refresh_sandboxes",
                                              !.args = <<c>>]
               ELSE proc[v]]
  /\ Take
  /\ UNCHANGED <<challenge_active, user_banned, sandboxes, sessions,
                 submissions, expiredUpTo, agedUpTo, containers, ncreated,
                 volumes, locks, fw, initialized, queue>>

\* ------------------------------------------------------- events.signals
\* cleanup_sandbox.delay(id) for the first sandbox of ids only
EnqueuedFirst(ids) ==
  [i \in DOMAIN queue |-> IF ids # {} /\ i = Min(ids) THEN queue[i] + 1 ELSE queue[i]]

\* cleanup_sandbox.delay(id) for every sandbox of ids
Enqueued(ids) == [i \in DOMAIN queue |-> IF i \in ids THEN queue[i] + 1 ELSE queue[i]]

\* Challenge.save() with active = value, c = None being a new row (no pk):
\* handle_challenge_deactivation runs before the row is written
SaveChallenge(w, c, value) ==
  LET deactivated == c # None /\ challenge_active[c] /\ ~value
      ids == IF deactivated
             THEN {i \in SandboxIds : sandboxes[i].active /\ sandboxes[i].challenge = c}
             ELSE {} IN
  /\ Free(w)
  /\ \A i \in ids : queue[i] < MaxDeliveries
  /\ queue' = Enqueued(ids)
  /\ challenge_active' = IF c = None THEN challenge_active
                         ELSE [challenge_active EXCEPT ![c] = value]
  /\ proc' = [v \in Workers |->
               IF v = w THEN [IdleProc EXCEPT !.call = "Challenge.save",
                                              !.args = <<c, value>>, !.enq = ids,
                                              !.sent = IF deactivated THEN 1 ELSE 0]
               ELSE proc[v]]
  /\ Take
  /\ UNCHANGED <<user_banned, sandboxes, sessions, submissions, expiredUpTo,
                 agedUpTo, containers, ncreated, volumes, locks, fw,
                 initialized>>

\* User.save() with banned = value, u = None being a new row (no pk):
\* handle_user_ban runs before the row is written
SaveUser(w, u, value) ==
  LET banned == u # None /\ ~user_banned[u] /\ value
      ids == IF banned
             THEN {i \in SandboxIds : sandboxes[i].active /\ sandboxes[i].user = u}
             ELSE {} IN
  /\ Free(w)
  /\ \A i \in ids : queue[i] < MaxDeliveries
  /\ queue' = Enqueued(ids)
  /\ user_banned' = IF u = None THEN user_banned ELSE [user_banned EXCEPT ![u] = value]
  /\ proc' = [v \in Workers |->
               IF v = w THEN [IdleProc EXCEPT !.call = "User.save",
                                              !.args = <<u, value>>, !.enq = ids]
               ELSE proc[v]]
  /\ Take
  /\ UNCHANGED <<challenge_active, sandboxes, sessions, submissions,
                 expiredUpTo, agedUpTo, containers, ncreated, volumes,
                 locks, fw, initialized>>

\* ------------------------------------- tasks.destroy_non_static_sandboxes
\* a reaper that selects by age alone
SandboxesToDestroyByAge(aged) ==
  {i \in SandboxIds : /\ sandboxes[i].active
                      /\ ~static[sandboxes[i].challenge]
                      /\ i <= aged}

\* a reaper that does not look at challenge.static
SandboxesToDestroyAnyChallenge(aged) ==
  {i \in SandboxIds : /\ sandboxes[i].active
                      /\ \/ Solved(sandboxes[i].user, sandboxes[i].challenge)
                         \/ i <= aged}

\* the active sandboxes of non-static challenges that are solved or 2 h old,
\* the sandboxes up to id `aged` being 2 hours old
SandboxesToDestroy(aged) ==
  {i \in SandboxIds : /\ sandboxes[i].active
                      /\ ~static[sandboxes[i].challenge]
                      /\ \/ Solved(sandboxes[i].user, sandboxes[i].challenge)
                         \/ i <= aged}

\* the periodic task runs at some later time: more sandboxes may be 2 h old
DestroyNonStaticSandboxes(w) ==
  /\ Free(w)
  /\ \E aged \in agedUpTo..Len(sandboxes) :
       /\ \A i \in SandboxesToDestroy(aged) : queue[i] < MaxDeliveries
       /\ agedUpTo' = aged
       /\ queue' = [i \in DOMAIN queue |->
                      IF i \in SandboxesToDestroy(aged) THEN queue[i] + 1 ELSE queue[i]]
  /\ Take
  /\ UNCHANGED <<challenge_active, user_banned, sandboxes, sessions,
                 submissions, expiredUpTo, containers, ncreated, volumes,
                 locks, fw, initialized, proc>>

\* -------------------------------------------------- user_auth.login_view
\* sessions a login in progress may still insert
PendingLogins == Cardinality({w \in Workers : proc[w].op = "login" /\ proc[w].sess = 0})

\* credentials accepted; existing_session and old_ip are read
LoginView(w, u, ip) ==
  /\ Free(w)
  /\ ~user_banned[u]
  /\ Len(sessions) + PendingLogins < MaxSessions
  /\ proc' = [proc EXCEPT ![w] = [IdleProc EXCEPT
                !.op = "login", !.pc = "li_update", !.u = u, !.ip = ip,
                !.old_ip = IF ActiveSessionIds(u) = {} THEN NoIp
                           ELSE sessions[Min(ActiveSessionIds(u))].ip]]
  /\ Take
  /\ UNCHANGED <<challenge_active, user_banned, sandboxes, sessions,
                 submissions, expiredUpTo, agedUpTo, containers, ncreated,
                 volumes, locks, fw, initialized, queue>>

\* inside transaction.atomic(): the UPDATE ... SET active = False statement
\* selects the active sessions it can see
LoginUpdate(w) ==
  LET p == proc[w] IN
  /\ p.pc = "li_update"
  /\ proc' = [proc EXCEPT ![w].pc = "li_commit", ![w].snap = ActiveSessionIds(p.u)]
  /\ UNCHANGED <<challenge_active, user_banned, sandboxes, sessions,
                 submissions, expiredUpTo, agedUpTo, containers, ncreated,
                 volumes, locks, fw, initialized, queue, budget>>

\* session.save() and the commit: the deactivations and the new row appear
LoginCommit(w) ==
  LET p == proc[w] IN
  /\ p.pc = "li_commit"
  /\ sessions' = Append([i \in SessionIds |->
                           IF i \in p.snap THEN [sessions[i] EXCEPT !.active = FALSE]
                           ELSE sessions[i]],
                        [user |-> p.u, ip |-> p.ip, active |-> TRUE])
  /\ proc' = [proc EXCEPT ![w].pc = "li_firewall", ![w].sess = Len(sessions) + 1,
                          ![w].snap = {}]
  /\ UNCHANGED <<challenge_active, user_banned, sandboxes, submissions,
                 expiredUpTo, agedUpTo, containers, ncreated, volumes,
                 locks, fw, initialized, queue, budget>>

\* initialize_firewall, then for the user's active non-static sandboxes the
\* entries of old_ip are removed and the entries of client_ip are added
LoginFirewall(w) ==
  LET p == proc[w]
      g == IF initialized[w] THEN fw ELSE InitializeFirewall(fw)
      ports == NonStaticPorts(UserSandboxIds(p.u))
      h == IF p.old_ip # NoIp /\ p.old_ip # p.ip
           THEN RemovePortIpMapping(g, TRUE, ports, p.old_ip)
           ELSE g IN
  /\ p.pc = "li_firewall"
  /\ initialized' = [initialized EXCEPT ![w] = TRUE]
  /\ fw' = AddPortIpMapping(h, TRUE, ports, p.ip)
  /\ Goto(w, "done")
  /\ UNCHANGED <<challenge_active, user_banned, sandboxes, sessions,
                 submissions, expiredUpTo, agedUpTo, containers, ncreated,
                 volumes, locks, queue, budget>>

\* ------------------------------------------------- user_auth.logout_view
\* the middleware found the active session of the user at the client address;
\* user_session is read
LogoutView(w, u, ip) ==
  LET mine == {i \in ActiveSessionIds(u) : sessions[i].ip = ip} IN
  /\ Free(w)
  /\ mine # {}
  /\ proc' = [proc EXCEPT ![w] = [IdleProc EXCEPT
                !.op = "logout", !.pc = "lo_firewall", !.u = u, !.ip = ip,
                !.sess = Min(mine)]]
  /\ Take
  /\ UNCHANGED <<challenge_active, user_banned, sandboxes, sessions,
                 submissions, expiredUpTo, agedUpTo, containers, ncreated,
                 volumes, locks, fw, initialized, queue>>

\* initialize_firewall; the entries of client_ip are removed for the user's
\* active non-static sandboxes
LogoutFirewall(w) ==
  LET p == proc[w]
      g == IF initialized[w] THEN fw ELSE InitializeFirewall(fw) IN
  /\ p.pc = "lo_firewall"
  /\ initialized' = [initialized EXCEPT ![w] = TRUE]
  /\ fw' = RemovePortIpMapping(g, TRUE, NonStaticPorts(UserSandboxIds(p.u)), p.ip)
  /\ Goto(w, "lo_save")
  /\ UNCHANGED <<challenge_active, user_banned, sandboxes, sessions,
                 submissions, expiredUpTo, agedUpTo, containers, ncreated,
                 volumes, locks, queue, budget>>

\* user_session.active = False; user_session.save()
LogoutSave(w) ==
  LET p == proc[w] IN
  /\ p.pc = "lo_save"
  /\ sessions' = [sessions EXCEPT ![p.sess].active = FALSE]
  /\ Goto(w, "done")
  /\ UNCHANGED <<challenge_active, user_banned, sandboxes, submissions,
                 expiredUpTo, agedUpTo, containers, ncreated, volumes,
                 locks, fw, initialized, queue, budget>>

\* ------------------------- user_auth.UserStatusMiddleware.process_request
\* User.is_admin: the second user is a staff account
is_admin == [u \in AllUsers |-> u = NumUsers + 1]

\* an authenticated request of user u arrives from address ip.  A banned user
\* is logged out and sent home; an admin, and a user with an active session at
\* ip, pass; otherwise some active session of the user is read as old_session
\* and the request is logged out and redirected to login
ProcessRequest(w, u, ip) ==
  LET mine == {i \in ActiveSessionIds(u) : sessions[i].ip = ip}
      done == [IdleProc EXCEPT !.op = "request", !.pc = "done", !.u = u,
                               !.ip = ip, !.call = "process_request"] IN
  /\ Free(w)
  /\ \/ /\ user_banned[u]
        /\ proc' = [proc EXCEPT ![w] = [done EXCEPT !.msg = "redirect:home"]]
     \/ /\ ~user_banned[u] /\ (is_admin[u] \/ mine # {})
        /\ proc' = [proc EXCEPT ![w] = [done EXCEPT !.msg = "pass"]]
     \/ /\ ~user_banned[u] /\ ~is_admin[u] /\ mine = {}
        /\ ActiveSessionIds(u) = {}
        /\ proc' = [proc EXCEPT ![w] = [done EXCEPT !.msg = "redirect:login"]]
     \/ /\ ~user_banned[u] /\ ~is_admin[u] /\ mine = {}
        /\ \E s \in ActiveSessionIds(u) :
             proc' = [proc EXCEPT ![w] = [IdleProc EXCEPT
                        !.op = "mismatch", !.pc = "mm_firewall", !.u = u,
                        !.ip = ip, !.sess = s, !.old_ip = sessions[s].ip,
                        !.call = "process_request"]]
  /\ Take
  /\ UNCHANGED <<challenge_active, user_banned, sandboxes, sessions,
                 submissions, expiredUpTo, agedUpTo, containers, ncreated,
                 volumes, locks, fw, initialized, queue>>

\* a middleware that initializes the firewall and removes nothing
MismatchFirewallKeeps(w) ==
  LET p == proc[w] IN
  /\ p.pc = "mm_firewall"
  /\ initialized' = [initialized EXCEPT ![w] = TRUE]
  /\ fw' = IF initialized[w] THEN fw ELSE InitializeFirewall(fw)
  /\ proc' = [proc EXCEPT ![w].pc = "mm_save",
                          ![w].prev = {e \in fw.map :
                                         /\ e[1] \in NonStaticPorts(UserSandboxIds(p.u))
                                         /\ e[2] = p.old_ip}]
  /\ UNCHANGED <<challenge_active, user_banned, sandboxes, sessions,
                 submissions, expiredUpTo, agedUpTo, containers, ncreated,
                 volumes, locks, queue, budget>>

\* initialize_firewall; the entries of old_ip are removed for the user's
\* active non-static sandboxes; prev keeps the entries that were there
MismatchFirewall(w) ==
  LET p == proc[w]
      g == IF initialized[w] THEN fw ELSE InitializeFirewall(fw)
      ports == NonStaticPorts(UserSandboxIds(p.u)) IN
  /\ p.pc = "mm_firewall"
  /\ initialized' = [initialized EXCEPT ![w] = TRUE]
  /\ fw' = RemovePortIpMapping(g, TRUE, ports, p.old_ip)
  /\ proc' = [proc EXCEPT ![w].pc = "mm_save",
                          ![w].prev = {e \in fw.map : e[1] \in ports /\ e[2] = p.old_ip}]
  /\ UNCHANGED <<challenge_active, user_banned, sandboxes, sessions,
                 submissions, expiredUpTo, agedUpTo, containers, ncreated,
                 volumes, locks, queue, budget>>

\* initialize_firewall raises (nft fails on its first command) in a process
\* that has not initialized: the except branch is taken, nothing is removed
MismatchFirewallFails(w) ==
  /\ proc[w].pc = "mm_firewall"
  /\ ~initialized[w]
  /\ proc' = [proc EXCEPT ![w].pc = "mm_save", ![w].err = "firewall"]
  /\ UNCHANGED <<challenge_active, user_banned, sandboxes, sessions,
                 submissions, expiredUpTo, agedUpTo, containers, ncreated,
                 volumes, locks, fw, initialized, queue, budget>>

\* old_session.active = False; old_session.save(update_fields=["active"]), in
\* the try block or in the except branch; django_logout and the redirect
MismatchSave(w) ==
  LET p == proc[w] IN
  /\ p.pc = "mm_save"
  /\ sessions' = [sessions EXCEPT ![p.sess].active = FALSE]
  /\ proc' = [proc EXCEPT ![w].pc = "done", ![w].msg = "redirect:login"]
  /\ UNCHANGED <<challenge_active, user_banned, sandboxes, submissions,
                 expiredUpTo, agedUpTo, containers, ncreated, volumes,
                 locks, fw, initialized, queue, budget>>

\* ----------------------------------------- tasks.cleanup_expired_sessions
\* the periodic task runs at some later time: more sessions may have reached
\* expires_at; the active sessions with expires_at <= now are selected
CleanupExpiredSessions(w) ==
  /\ Free(w)
  /\ \E upto \in expiredUpTo..Len(sessions) :
       LET expired == {i \in SessionIds : sessions[i].active /\ i <= upto} IN
       /\ expired # {}
       /\ expiredUpTo' = upto
       /\ proc' = [proc EXCEPT ![w] = [IdleProc EXCEPT
                     !.op = "expire", !.pc = "xs_item", !.todo = SortedSeq(expired),
                     !.snap = expired]]
  /\ Take
  /\ UNCHANGED <<challenge_active, user_banned, sandboxes, sessions,
                 submissions, agedUpTo, containers, ncreated, volumes,
                 locks, fw, initialized, queue>>

\* one expired session: the rules of the user's active non-static sandboxes
\* are removed
ExpiredSessionFirewall(w) ==
  LET p == proc[w]
      ids == {i \in UserSandboxIds(sessions[Head(p.todo)].user) :
                ~static[sandboxes[i].challenge]}
      ports == NonStaticPorts(ids) IN
  /\ p.pc = "xs_item"
  /\ Len(p.todo) > 0
  /\ fw' = IF ~initialized[w] THEN fw
           ELSE [fw EXCEPT !.sandbox_ports = @ \ ports,
                           !.static_ports = @ \ ports,
                           !.map = {e \in @ : e[1] \notin ports}]
  /\ proc' = [proc EXCEPT ![w].pc = "xs_save", ![w].sess = Head(p.todo)]
  /\ UNCHANGED <<challenge_active, user_banned, sandboxes, sessions,
                 submissions, expiredUpTo, agedUpTo, containers, ncreated,
                 volumes, locks, initialized, queue, budget>>

\* session.active = False; session.save()
ExpiredSessionSave(w) ==
  LET p == proc[w] IN
  /\ p.pc = "xs_save"
  /\ sessions' = [sessions EXCEPT ![p.sess].active = FALSE]
  /\ proc' = [proc EXCEPT ![w].pc = IF Len(p.todo) > 1 THEN "xs_item" ELSE "done",
                          ![w].todo = Tail(p.todo)]
  /\ UNCHANGED <<challenge_active, user_banned, sandboxes, submissions,
                 expiredUpTo, agedUpTo, containers, ncreated, volumes,
                 locks, fw, initialized, queue, budget>>

\* ------------------------------------------------------ XctfConfig.ready
\* the rules added for the active sessions of a set: for each session, every
\* port of the active non-static sandboxes of its user, for its address
RECURSIVE RebuildSessions(_, _)
RebuildSessions(f, S) ==
  IF S = {} THEN f
  ELSE LET i == Min(S)
       IN RebuildSessions(
            AddPortIpMapping(f, TRUE, NonStaticPorts(UserSandboxIds(sessions[i].user)),
                             sessions[i].ip),
            S \ {i})

\* Sandbox.objects.filter(active=True, challenge__static=True)
StaticSandboxIds ==
  {i \in SandboxIds : sandboxes[i].active /\ static[sandboxes[i].challenge]}

StaticPorts == UNION {SandboxPorts(sandboxes[i]) : i \in StaticSandboxIds}

\* active_ports as the rebuild collects it: the ports it has added rules for
RebuildActivePorts ==
  UNION {NonStaticPorts(UserSandboxIds(sessions[i].user)) :
           i \in {j \in SessionIds : sessions[j].active}}
    \cup StaticPorts

\* a process of the platform starts: its FirewallService is new, the thread of
\* ready() initializes the firewall, rebuilds the rules from the database and
\* calls clean_orphan_ports(active_ports)
Ready(w) ==
  LET g == InitializeFirewall(fw)
      h == RebuildSessions(g, {j \in SessionIds : sessions[j].active})
      k == AddStaticPort(h, TRUE, StaticPorts) IN
  /\ Free(w)
  /\ fw' = CleanOrphanPorts(k, TRUE, RebuildActivePorts)
  /\ initialized' = [initialized EXCEPT ![w] = TRUE]
  /\ proc' = [v \in Workers |->
               IF v = w THEN [IdleProc EXCEPT !.call = "ready"] ELSE proc[v]]
  /\ Take
  /\ UNCHANGED <<challenge_active, user_banned, sandboxes, sessions,
                 submissions, expiredUpTo, agedUpTo, containers, ncreated,
                 volumes, locks, queue>>

\* ------------------------------------------ ChallengeService.submit_flag
\* the result of submit_flag(user_id, challenge_id, flag): the returned pair
\* and the Submission rows saved
SubmitFlagOutcome(user_id, challenge_id, f) ==
  IF challenge_id \notin AllChallenges
  THEN [ok |-> FALSE, message |-> "Challenge not found", rows |-> <<>>]
  ELSE IF Solved(user_id, challenge_id)
  THEN [ok |-> FALSE, message |-> "You have already solved this challenge.",
        rows |-> <<>>]
  ELSE LET is_correct == Strip(f) = Strip(flag[challenge_id])
       IN [ok |-> is_correct,
           message |-> IF is_correct THEN "correct flag" ELSE "incorrect flag",
           rows |-> <<[user |-> user_id, challenge |-> challenge_id,
                       correct |-> is_correct]>>]

\* a caller of the service invokes submit_flag(user_id, challenge_id, flag)
CallSubmitFlag(w, user_id, challenge_id, f) ==
  LET out == SubmitFlagOutcome(user_id, challenge_id, f) IN
  /\ Free(w)
  /\ submissions' = submissions \o out.rows
  /\ proc' = [v \in Workers |->
               IF v = w THEN [IdleProc EXCEPT !.call = "submit_flag",
                                              !.args = <<user_id, challenge_id, f>>,
                                              !.ret = out.ok, !.msg = out.message]
               ELSE IdleProc]
  /\ Take
  /\ UNCHANGED <<challenge_active, user_banned, sandboxes, sessions,
                 expiredUpTo, agedUpTo, containers, ncreated, volumes,
                 locks, fw, initialized, queue>>

\* the view: a logged-in user posts the flag of a challenge not yet solved
SubmitFlag(u, ip, c) ==
  /\ \E i \in ActiveSessionIds(u) : sessions[i].ip = ip
  /\ ~Solved(u, c)
  /\ submissions' = submissions \o SubmitFlagOutcome(u, c, Strip(flag[c])).rows
  /\ Take
  /\ UNCHANGED <<challenge_active, user_banned, sandboxes, sessions,
                 expiredUpTo, agedUpTo, containers, ncreated, volumes,
                 locks, fw, initialized, queue, proc>>

\* a view computes the client IP of its request
CallGetClientIp(w, meta) ==
  /\ Free(w)
  /\ proc' = [v \in Workers |->
               IF v = w THEN [IdleProc EXCEPT !.call = "get_client_ip",
                                              !.args = <<meta>>,
                                              !.out = GetClientIp(meta)]
               ELSE IdleProc]
  /\ Take
  /\ UNCHANGED <<challenge_active, user_banned, sandboxes, sessions,
                 submissions, expiredUpTo, agedUpTo, containers, ncreated,
                 volumes, locks, fw, initialized, queue>>

\* the security middleware asks the firewall service for the client IP
CallServiceGetClientIp(w, meta) ==
  /\ Free(w)
  /\ proc' = [v \in Workers |->
               IF v = w THEN [IdleProc EXCEPT !.call = "FirewallService.get_client_ip",
                                              !.args = <<meta>>,
                                              !.out = ServiceGetClientIp(meta)]
               ELSE IdleProc]
  /\ Take
  /\ UNCHANGED <<challenge_active, user_banned, sandboxes, sessions,
                 submissions, expiredUpTo, agedUpTo, containers, ncreated,
                 volumes, locks, fw, initialized, queue>>

\* the port_mappings arguments the callers pass: None, or the HostPort string
\* of one more container port
ApiMappings == {NoMappings} \cup {[k \in {9000} |-> Digits(q)] : q \in ApiPorts}

\* ------------------------------------------- FirewallService, called directly
\* the last call, its arguments, its return value, the number of nft commands
\* it ran and the map it found are kept with the worker process that made it
Called(w, call, args, ret, cmds) ==
  /\ Free(w)
  /\ proc' = [v \in Workers |->
               IF v = w THEN [IdleProc EXCEPT !.call = call, !.args = args,
                                              !.ret = ret, !.cmds = cmds,
                                              !.prev = fw.map]
               ELSE IdleProc]
  /\ UNCHANGED <<challenge_active, user_banned, sandboxes, sessions,
                 submissions, expiredUpTo, agedUpTo, containers, ncreated,
                 volumes, locks, queue, budget>>

CallInitializeFirewall(w) ==
  /\ fw' = IF initialized[w] THEN fw ELSE InitializeFirewall(fw)
  /\ initialized' = [initialized EXCEPT ![w] = TRUE]
  /\ Called(w, "initialize_firewall", <<>>, TRUE, InitializeCommands(fw, initialized[w]))

\* initialize_firewall in a process that is not initialized finds no table and
\* starts creating; the nft command after the first k creation commands fails
\* and the RuntimeError propagates: what was created stays, _initialized too
CallInitializeFirewallFails(w, k) ==
  /\ ~initialized[w]
  /\ ~fw.table
  /\ fw' = [fw EXCEPT !.table = (k >= 1), !.created = k]
  /\ UNCHANGED initialized
  /\ Called(w, "initialize_firewall", <<>>, FALSE, k + 2)

\* add_port_ip_mapping and add_static_port in a process that is not
\* initialized call initialize_firewall first: when it raises they log and
\* return False
CallAddPortIpMappingFails(w, port, ip, k) ==
  /\ ~initialized[w]
  /\ ~fw.table
  /\ fw' = [fw EXCEPT !.table = (k >= 1), !.created = k]
  /\ UNCHANGED initialized
  /\ Called(w, "add_port_ip_mapping", <<port, ip>>, FALSE, k + 2)

CallAddStaticPortFails(w, port, k) ==
  /\ ~initialized[w]
  /\ ~fw.table
  /\ fw' = [fw EXCEPT !.table = (k >= 1), !.created = k]
  /\ UNCHANGED initialized
  /\ Called(w, "add_static_port", <<port>>, FALSE, k + 2)

CallAddPortIpMapping(w, port, ip) ==
  /\ fw' = AddPortIpMapping(fw, initialized[w], {port}, ip)
  /\ initialized' = [initialized EXCEPT ![w] = TRUE]
  /\ Called(w, "add_port_ip_mapping", <<port, ip>>, TRUE,
            InitializeCommands(fw, initialized[w]) + 2)

CallRemovePortIpMapping(w, port, ip) ==
  /\ fw' = RemovePortIpMapping(fw, initialized[w], {port}, ip)
  /\ UNCHANGED initialized
  /\ Called(w, "remove_port_ip_mapping", <<port, ip>>, initialized[w],
            IF initialized[w] THEN 1 ELSE 0)

CallAddStaticPort(w, port) ==
  /\ fw' = AddStaticPort(fw, initialized[w], {port})
  /\ initialized' = [initialized EXCEPT ![w] = TRUE]
  /\ Called(w, "add_static_port", <<port>>, TRUE,
            InitializeCommands(fw, initialized[w]) + 1)

CallRemoveStaticPort(w, port) ==
  /\ fw' = RemoveStaticPort(fw, initialized[w], {port})
  /\ UNCHANGED initialized
  /\ Called(w, "remove_static_port", <<port>>, initialized[w],
            IF initialized[w] THEN 1 ELSE 0)

\* a remove_sandbox_port that reports the failure of nft on a missing element
CallRemoveSandboxPortStrict(w, port) ==
  /\ fw' = RemoveSandboxPort(fw, initialized[w], {port})
  /\ UNCHANGED initialized
  /\ Called(w, "remove_sandbox_port", <<port>>,
            initialized[w] /\ port \in fw.sandbox_ports,
            IF initialized[w] THEN 1 ELSE 0)

CallRemoveSandboxPort(w, port) ==
  /\ fw' = RemoveSandboxPort(fw, initialized[w], {port})
  /\ UNCHANGED initialized
  /\ Called(w, "remove_sandbox_port", <<port>>, initialized[w],
            IF initialized[w] THEN 1 ELSE 0)

CallRemoveAllPortMappingsForSandbox(w, sandbox_port, pm) ==
  /\ fw' = RemoveAllPortMappingsForSandbox(fw, initialized[w], sandbox_port, pm)
  /\ UNCHANGED initialized
  /\ Called(w, "remove_all_port_mappings_for_sandbox", <<sandbox_port, pm>>,
            initialized[w], RemoveAllCommands(fw, initialized[w], sandbox_port, pm))

CallCleanOrphanPorts(w, active_ports) ==
  /\ fw' = CleanOrphanPorts(fw, initialized[w], active_ports)
  /\ UNCHANGED initialized
  /\ Called(w, "clean_orphan_ports", <<active_ports>>, initialized[w] /\ fw.table,
            CleanOrphanCommands(fw, initialized[w], active_ports))

\* ----------------------------------------------------------- specifications
\* the steps of get_or_create_sandbox and _create_sandbox
Provision(w) ==
  \/ GocFastPath(w)
  \/ AcquireSetnx(w)
  \/ AcquireTimeout(w)
  \/ AcquireExpire(w)
  \/ GocRecheck(w)
  \/ ReleaseLock(w)
  \/ CreateVolume(w)
  \/ CreateContainer(w)
  \/ CreateContainerFails(w)
  \/ Rollback(w)
  \/ SaveSandbox(w)
  \/ AddSandboxFirewallRules(w)
  \/ Return(w)

\* the steps of a call of get_or_create_sandbox that no other call competes
\* with: the lock is free and so is the container name
ProvisionAlone(w) ==
  \/ GocFastPath(w)
  \/ AcquireSetnx(w)
  \/ AcquireExpire(w)
  \/ GocRecheck(w)
  \/ ReleaseLock(w)
  \/ CreateVolume(w)
  \/ CreateContainer(w)
  \/ Rollback(w)
  \/ SaveSandbox(w)
  \/ AddSandboxFirewallRules(w)
  \/ Return(w)

\* the steps of cleanup_sandbox
Cleanup(w) ==
  \/ \E sid \in 1..MaxSandboxes : CleanupSandbox(w, sid)
  \/ CleanupFirewall(w)
  \/ CleanupContainer(w)
  \/ CleanupSave(w)
  \/ CleanupVolume(w)

\* the steps of login_view
Login(w, ips) ==
  \/ \E u \in Users, ip \in ips : LoginView(w, u, ip)
  \/ LoginUpdate(w)
  \/ LoginCommit(w)
  \/ LoginFirewall(w)

Step(w) ==
  \/ \E u \in Users, ip \in Ips, c \in Challenges : StartChallenge(w, u, ip, c)
  \/ Provision(w)
  \/ Cleanup(w)
  \/ \E c \in Challenges : RefreshSandboxes(w, c)
  \/ DestroyNonStaticSandboxes(w)
  \/ Login(w, Ips)
  \/ \E u \in Users, ip \in Ips : LogoutView(w, u, ip)
  \/ LogoutFirewall(w)
  \/ LogoutSave(w)
  \/ CleanupExpiredSessions(w)
  \/ ExpiredSessionFirewall(w)
  \/ ExpiredSessionSave(w)

\* the whole platform: every handler and task, from every client
Next ==
  \/ \E w \in Workers : Step(w)
  \/ \E u \in Users, ip \in Ips, c \in Challenges : SubmitFlag(u, ip, c)

Spec == Init /\ [][Next]_vars

\* the sandbox lifecycle alone: one client logs in and starts the per-user
\* challenge again and again while the reaper and its cleanup tasks run
InitSandbox == Start(MaxSandboxRequests)

NextSandbox ==
  \E w \in Workers :
    \/ Login(w, {"10.0.0.1"})
    \/ \E u \in Users : StartChallenge(w, u, "10.0.0.1", 1)
    \/ Provision(w)
    \/ Cleanup(w)
    \/ DestroyNonStaticSandboxes(w)

SpecSandbox == InitSandbox /\ [][NextSandbox]_vars

\* the service API alone: callers invoke get_or_create_sandbox directly
InitApi == Start(MaxCalls)

NextApi ==
  \E w \in Workers :
    \/ \E c \in AllChallenges, uid \in UserArgs : CallGetOrCreate(w, c, uid)
    \/ Provision(w)

SpecApi == InitApi /\ [][NextApi]_vars

\* the sandbox lifecycle with a runtime whose containers may stop
InitRuntime == Start(MaxRuntimeRequests)

NextRuntime ==
  \/ \E w \in Workers :
       \/ Login(w, {"10.0.0.1"})
       \/ \E u \in Users : StartChallenge(w, u, "10.0.0.1", 1)
       \/ Provision(w)
       \/ Cleanup(w)
       \/ DestroyNonStaticSandboxes(w)
  \/ \E cid \in 1..MaxSandboxes : ContainerExits(cid)

SpecRuntime == InitRuntime /\ [][NextRuntime]_vars

\* reap-on-solve: a client logs in once, starts the per-user challenge until
\* it has a sandbox, one request at a time, and submits its flag while the
\* reaper and its cleanup tasks run
InitReap == Start(MaxReapRequests)

NextReap ==
  \/ \E w \in Workers :
       \/ /\ sessions = <<>> /\ PendingLogins = 0
          /\ \E u \in Users : LoginView(w, u, "10.0.0.1")
       \/ LoginUpdate(w)
       \/ LoginCommit(w)
       \/ LoginFirewall(w)
       \/ /\ sandboxes = <<>> /\ PendingInserts(Workers) = 0
          /\ \E u \in Users : StartChallenge(w, u, "10.0.0.1", 1)
       \/ ProvisionAlone(w)
       \/ Cleanup(w)
       \/ DestroyNonStaticSandboxes(w)
  \/ \E u \in Users : SubmitFlag(u, "10.0.0.1", 1)

\* a worker process goes on with the handler or task it runs, the beat
\* scheduler starts the reaper every minute, and a queued task is delivered
FairReap ==
  /\ \A w \in Workers :
       WF_vars(LoginUpdate(w) \/ LoginCommit(w) \/ LoginFirewall(w)
                 \/ ProvisionAlone(w) \/ Cleanup(w))
  /\ WF_vars(\E w \in Workers : DestroyNonStaticSandboxes(w))

SpecReap == InitReap /\ [][NextReap]_vars /\ FairReap

\* flag submission alone: callers invoke submit_flag directly
InitSubmit == Start(MaxSubmitCalls)

NextSubmit ==
  \E w \in Workers, user_id \in Users,
     challenge_id \in Challenges \cup {UnknownChallenge}, f \in Flags :
    CallSubmitFlag(w, user_id, challenge_id, f)

SpecSubmit == InitSubmit /\ [][NextSubmit]_vars

\* sandboxes of two users on a per-user challenge, the deactivation of the
\* challenge and the refresh task, with a database that may refuse the save
\* of a Sandbox row
InitRefresh == Start(MaxRefreshRequests)

NextRefresh ==
  \E w \in Workers :
    \/ \E uid \in AllUsers : CallGetOrCreate(w, 4, uid)
    \/ Provision(w)
    \/ Cleanup(w)
    \/ CleanupSaveFails(w)
    \/ SaveChallenge(w, 4, FALSE)
    \/ RefreshSandboxes(w, 4)
    \/ RefreshInactive(w, 4)

SpecRefresh == InitRefresh /\ [][NextRefresh]_vars

\* sandboxes of two users on a per-user challenge and saves of Challenge and
\* User rows
InitSignals == Start(MaxSignalRequests)

NextSignals ==
  \E w \in Workers :
    \/ \E uid \in AllUsers : CallGetOrCreate(w, 4, uid)
    \/ Provision(w)
    \/ \E value \in BOOLEAN :
         \/ \E c \in {4, None} : SaveChallenge(w, c, value)
         \/ \E u \in AllUsers \cup {None} : SaveUser(w, u, value)

SpecSignals == InitSignals /\ [][NextSignals]_vars

\* logins, logouts and sandboxes of one client, and processes that start
InitRebuild == Start(MaxRebuildRequests)

NextRebuild ==
  \E w \in Workers :
    \/ Login(w, {"10.0.0.1"})
    \/ \E u \in Users, c \in Challenges : StartChallenge(w, u, "10.0.0.1", c)
    \/ Provision(w)
    \/ \E u \in Users : LogoutView(w, u, "10.0.0.1")
    \/ LogoutFirewall(w)
    \/ LogoutSave(w)
    \/ Ready(w)

SpecRebuild == InitRebuild /\ [][NextRebuild]_vars

\* cleanup_sandbox alone: a client logs in and starts the per-user challenge,
\* and cleanup_sandbox is invoked with ids that exist and ids that do not
InitCleanup == Start(MaxCleanupRequests)

NextCleanup ==
  \E w \in Workers :
    \/ Login(w, {"10.0.0.1"})
    \/ \E u \in Users : StartChallenge(w, u, "10.0.0.1", 1)
    \/ Provision(w)
    \/ \E sid \in 1..MaxSandboxes : CallCleanupSandbox(w, sid)
    \/ CleanupFirewall(w)
    \/ CleanupContainer(w)
    \/ CleanupSave(w)
    \/ CleanupVolume(w)

SpecCleanup == InitCleanup /\ [][NextCleanup]_vars

\* deactivation: a client logs in and starts the per-user challenge while a
\* staff member deactivates it and the queued cleanup tasks run
InitDeactivate == Start(MaxDeactivateRequests)

NextDeactivate ==
  \E w \in Workers :
    \/ Login(w, {"10.0.0.1"})
    \/ \E u \in Users : StartChallenge(w, u, "10.0.0.1", 1)
    \/ Provision(w)
    \/ Cleanup(w)
    \/ SaveChallenge(w, 1, FALSE)

SpecDeactivate == InitDeactivate /\ [][NextDeactivate]_vars

\* teardown against logins: a client logs in from either address and starts
\* the per-user challenge, a staff member deactivates it, and cleanup_sandbox
\* runs its firewall step command by command
InitTeardown == Start(MaxTeardownRequests)

NextTeardown ==
  \E w \in Workers :
    \/ Login(w, Ips)
    \/ \E u \in Users, ip \in Ips : StartChallenge(w, u, ip, 1)
    \/ Provision(w)
    \/ SaveChallenge(w, 1, FALSE)
    \/ \E sid \in 1..MaxSandboxes : CleanupSandbox(w, sid)
    \/ CleanupFirewallList(w)
    \/ CleanupFirewallDelete(w)
    \/ CleanupContainer(w)
    \/ CleanupSave(w)
    \/ CleanupVolume(w)

SpecTeardown == InitTeardown /\ [][NextTeardown]_vars

\* the session middleware: both users log in, the player starts the per-user
\* challenge, a staff member bans, and requests arrive from either address
InitMismatch == Start(MaxMismatchRequests)

NextMismatch ==
  \E w \in Workers :
    \/ \E u \in AllUsers, ip \in Ips : LoginView(w, u, ip)
    \/ LoginUpdate(w)
    \/ LoginCommit(w)
    \/ LoginFirewall(w)
    \/ \E u \in Users : StartChallenge(w, u, "10.0.0.1", 1)
    \/ Provision(w)
    \/ \E u \in Users : SaveUser(w, u, TRUE)
    \/ \E u \in AllUsers, ip \in Ips : ProcessRequest(w, u, ip)
    \/ MismatchFirewall(w)
    \/ MismatchFirewallFails(w)
    \/ MismatchSave(w)

SpecMismatch == InitMismatch /\ [][NextMismatch]_vars

\* the client IP alone: requests arrive with their headers
InitClientIp == Start(MaxClientIpCalls)

NextClientIp ==
  \E w \in Workers, meta \in Metas :
    \/ CallGetClientIp(w, meta)
    \/ CallServiceGetClientIp(w, meta)

SpecClientIp == InitClientIp /\ [][NextClientIp]_vars

\* initialize_firewall, called directly and by the add methods, with nft
\* commands that may fail
NextInitialize ==
  \E w \in Workers :
    \/ CallInitializeFirewall(w)
    \/ \E k \in 0..(CreationCommands - 1) :
         \/ CallInitializeFirewallFails(w, k)
         \/ \E port \in ApiPorts :
              \/ CallAddStaticPortFails(w, port, k)
              \/ \E ip \in Ips : CallAddPortIpMappingFails(w, port, ip, k)

SpecInitialize == Init /\ [][NextInitialize]_vars

\* the firewall service alone: the worker processes call its methods
\* one after the other
NextFirewall ==
  \E w \in Workers :
    \/ CallInitializeFirewall(w)
    \/ \E port \in ApiPorts, ip \in Ips :
         \/ CallAddPortIpMapping(w, port, ip)
         \/ CallRemovePortIpMapping(w, port, ip)
    \/ \E port \in ApiPorts :
         \/ CallAddStaticPort(w, port)
         \/ CallRemoveStaticPort(w, port)
         \/ CallRemoveSandboxPort(w, port)
         \/ \E pm \in ApiMappings : CallRemoveAllPortMappingsForSandbox(w, port, pm)
    \/ \E active_ports \in SUBSET ApiPorts : CallCleanOrphanPorts(w, active_ports)

SpecFirewall == Init /\ [][NextFirewall]_vars

TypeOK ==
  /\ Len(sandboxes) <= MaxSandboxes
  /\ Len(sessions) <= MaxSessions
  /\ \A i \in DOMAIN queue : queue[i] \in 0..MaxDeliveries
  /\ budget \in 0..MaxSandboxRequests

\* ------------------------------------------------------------------ claims
\* no request or task is mid-execution
Quiescent == \A w \in Workers : Idle(w)

\* a source address no session was ever opened from
Outsider == "198.51.100.7"

\* C1 (SB-1): in every reachable state, under any interleaving of
\* get_or_create_sandbox, cleanup_sandbox and the reaper, at most one Sandbox
\* row is active for a non-static (challenge, user) pair
SB1_OneActivePerKey ==
  \A c \in Challenges, u \in Users :
    ~static[c] => Cardinality(ActiveSandboxIds(c, u)) <= 1

\* both workers are in calls of get_or_create_sandbox for the same non-static
\* (challenge, user), each call found no active sandbox at its first query,
\* and both calls have returned
BothReturned(v, w) ==
  LET p == proc[v]
      q == proc[w] IN
  /\ v # w
  /\ p.op = "goc" /\ q.op = "goc"
  /\ p.pc = "done" /\ q.pc = "done"
  /\ p.c = q.c /\ p.u = q.u /\ ~static[p.c] /\ p.u # None
  /\ p.fresh /\ q.fresh

\* one container was created, one Sandbox row of the key is active and both
\* callers received it
OneSandboxForBoth(v, w) ==
  LET p == proc[v]
      q == proc[w] IN
  /\ (p.cid = 0) # (q.cid = 0)
  /\ Cardinality(ActiveSandboxIds(p.c, p.u)) = 1
  /\ p.res \in ActiveSandboxIds(p.c, p.u)
  /\ q.res = p.res

\* C2: when two workers call get_or_create_sandbox concurrently for the same
\* non-static (challenge, user) that had no active sandbox beforehand, and the
\* runtime reported no health timeout, then at the step in which the last of
\* the calls returns exactly one container has been created, exactly one
\* Sandbox row of the key is active, and both callers received that Sandbox
GetOrCreateConcurrent ==
  [][\A v, w \in Workers :
       ( /\ ~BothReturned(v, w)
         /\ BothReturned(v, w)'
         /\ proc'[v].err # "timeout" /\ proc'[w].err # "timeout" )
       => OneSandboxForBoth(v, w)']_vars

\* C3: a TCP packet to a host port (primary or mapped) of an active non-static
\* Sandbox is accepted by the xctf chains only if its source address is the IP
\* of an active Session of the sandbox's owner; stated for the states in which
\* no request or task is mid-execution, also after the owner's session expired
PortsRestrictedToOwner ==
  Quiescent =>
    \A i \in SandboxIds, ip \in Ips \cup {Outsider} :
      LET s == sandboxes[i] IN
      s.active /\ ~static[s.challenge] =>
        \A port \in SandboxPorts(s) :
          Accepts(fw, port, ip) =>
            \E j \in ActiveSessionIds(s.user) : sessions[j].ip = ip

\* no other worker is mid-execution
Alone(w) == \A v \in Workers \ {w} : Idle(v)

\* no firewall entry, no membership of sandbox_ports, no active flag and no
\* volume image file is left of the sandbox a cleanup_sandbox task worked on
CleanedUp(w) ==
  LET s == sandboxes[proc[w].sid] IN
  /\ \A e \in fw.map : e[1] \notin SandboxPorts(s)
  /\ SandboxPorts(s) \cap fw.sandbox_ports = {}
  /\ ~s.active
  /\ ~volumes[VolumeKey(s.challenge, s.user)].file

\* C4: at the step in which cleanup_sandbox(S) completes for an existing
\* Sandbox S, run by any worker (its firewall controller initialized or not)
\* while nothing else is mid-execution: no sandbox_port_to_ip entry has a port
\* of S, none of S's ports is in sandbox_ports, S.active is false and S's
\* volume image file does not exist
CleanupPostcondition ==
  [][\A w \in Workers :
       ( /\ proc[w].op = "cleanup" /\ proc[w].pc = "cl_volume"
         /\ proc'[w].pc = "done"
         /\ Alone(w) )
       => CleanedUp(w)']_vars

\* the only active Session of the user is at the client address of the login,
\* and the ports of the user's active non-static sandboxes are mapped to it
\* and no longer to the old address
SessionReplaced(w) ==
  LET p == proc[w]
      ports == NonStaticPorts(UserSandboxIds(p.u)) IN
  /\ Cardinality(ActiveSessionIds(p.u)) = 1
  /\ \A i \in ActiveSessionIds(p.u) : sessions[i].ip = p.ip
  /\ \A port \in ports : /\ <<port, p.old_ip>> \notin fw.map
                         /\ <<port, p.ip>> \in fw.map

\* C5: at the step in which a login of user U from IP X completes, U having
\* had an active Session at an IP Y different from X, with nothing else
\* mid-execution and U not logged out again: U's only active Session has IP X, and for every port of U's
\* active non-static sandboxes the map has no (port, Y) entry and has (port, X)
LoginPostcondition ==
  [][\A w \in Workers :
       ( /\ proc[w].op = "login" /\ proc[w].pc = "li_firewall"
         /\ proc'[w].pc = "done"
         /\ proc[w].old_ip # NoIp /\ proc[w].old_ip # proc[w].ip
         /\ sessions[proc[w].sess].active
         /\ Alone(w) )
       => SessionReplaced(w)']_vars

\* C6 (SI-1): in every reachable state, concurrent logins of the same user
\* from different clients included, each user has at most one active Session
SI1_OneActiveSession ==
  \A u \in Users : Cardinality(ActiveSessionIds(u)) <= 1

\* C7 (SB-4): every host port of every active Sandbox, static or non-static
\* (its container_port and each port_mappings value), is a member of the set
\* sandbox_ports; stated for the states in which no request or task is
\* mid-execution
SB4_PortsInSandboxPorts ==
  Quiescent =>
    \A i \in SandboxIds :
      sandboxes[i].active => SandboxPorts(sandboxes[i]) \subseteq fw.sandbox_ports

\* C8 (FW-1): in every state in which no request or task is mid-execution, for
\* every (port, ip) entry of sandbox_port_to_ip there is an active Session
\* whose IP is ip and whose user owns an active non-static Sandbox that
\* publishes port
FW1_MapEntriesJustified ==
  Quiescent =>
    \A e \in fw.map :
      \E j \in SessionIds :
        /\ sessions[j].active
        /\ sessions[j].ip = e[2]
        /\ e[1] \in NonStaticPorts(UserSandboxIds(sessions[j].user))

\* C9 (OW-1): while a Sandbox is active its volume image file and its mount
\* point exist and the image is mounted: no operation on another Sandbox or on
\* another creation attempt of the same key unmounts or deletes them; stated
\* for the states in which no request or task is mid-execution
OW1_ActiveSandboxOwnsVolume ==
  Quiescent =>
    \A i \in SandboxIds :
      LET s == sandboxes[i]
          v == volumes[VolumeKey(s.challenge, s.user)] IN
      s.active => v.file /\ v.dir /\ v.mounted

\* C10 (SB-2): for every static challenge at most one Sandbox is active and
\* its user reference is null, whatever user_id get_or_create_sandbox is
\* called with
SB2_StaticSandbox ==
  \A c \in Challenges :
    static[c] =>
      /\ Cardinality(ActiveSandboxIds(c, None)) <= 1
      /\ \A i \in ActiveSandboxIds(c, None) : sandboxes[i].user = None

\* the container a Sandbox row names is running in the runtime
Running(cid) == \E c \in containers : c.id = cid /\ c.running

\* a cleanup_sandbox of the sandbox is queued or being executed
CleanupUnderWay(i) ==
  \/ queue[i] > 0
  \/ \E w \in Workers : proc[w].op = "cleanup" /\ proc[w].sid = i /\ proc[w].pc # "done"

\* C11 (SB-3): every active Sandbox names a running container, or else its
\* cleanup is enqueued within one reconciliation cycle: at every step that is a
\* run of destroy_non_static_sandboxes, each active Sandbox whose container is
\* not running has a cleanup_sandbox queued or under way afterwards
SB3_ContainerRunningOrReaped ==
  [][(\E w \in Workers : DestroyNonStaticSandboxes(w)) =>
       \A i \in SandboxIds :
         sandboxes[i].active /\ ~Running(sandboxes[i].container_id)
           => CleanupUnderWay(i)']_vars

\* C12: after clean_orphan_ports(active) has returned, called with no other
\* firewall mutation under way, sandbox_ports contains no port outside active,
\* whatever sandbox_ports held before
CleanOrphanPortsSet ==
  [][\A w \in Workers, active \in SUBSET ApiPorts :
       CallCleanOrphanPorts(w, active) => fw'.sandbox_ports \subseteq active]_vars

\* C13: after clean_orphan_ports(active) has returned under the same
\* conditions, every remaining key (port, ip) of sandbox_port_to_ip has its
\* port in active, also when the port was not in sandbox_ports before the call
CleanOrphanPortsMap ==
  [][\A w \in Workers, active \in SUBSET ApiPorts :
       CallCleanOrphanPorts(w, active) => \A e \in fw'.map : e[1] \in active]_vars

\* the owner of an active Sandbox of a non-static challenge has a correct
\* Submission on the challenge, and a run of the reaper and every cleanup task
\* it may enqueue can still be taken up
SolvedWhileActive(i) ==
  /\ i \in SandboxIds
  /\ sandboxes[i].active
  /\ ~static[sandboxes[i].challenge]
  /\ Solved(sandboxes[i].user, sandboxes[i].challenge)
  /\ budget >= MaxDeliveries * MaxSandboxes + 1

\* the Sandbox is inactive, its container is removed and its volume image file
\* is deleted
Reaped(i) ==
  /\ i \in SandboxIds
  /\ ~sandboxes[i].active
  /\ \A c \in containers : c.id # sandboxes[i].container_id
  /\ ~volumes[VolumeKey(sandboxes[i].challenge, sandboxes[i].user)].file

ProvisioningFails(w) ==
  /\ proc[w].op = "goc"
  /\ Rollback(w) \/ CreateContainerFails(w)
  /\ Alone(w)

\* the error is on its way to the caller, the key has no active Sandbox, the
\* container of the attempt is gone, the volume image file is deleted and the
\* firewall is as the call found it
FailureCleanedUp(w) ==
  LET p == proc[w] IN
  /\ p.err # "none" /\ p.res = 0
  /\ ActiveSandboxIds(p.c, p.u) = {}
  /\ \A c \in containers : c.id # p.cid
  /\ ~volumes[VolumeKey(p.c, p.u)].file

\* C15: whenever provisioning fails after the volume was allocated (health
\* timeout, container creation error, missing 8000/tcp), at the step in which
\* the error handling of the call completes: the error propagates, no active
\* Sandbox row exists for the key, the container of the attempt is removed,
\* the volume image is deleted, and the firewall sets and map are unchanged
ProvisioningFailurePostcondition ==
  [][\A w \in Workers :
       ProvisioningFails(w) => FailureCleanedUp(w)' /\ fw' = fw]_vars

\* _add_sandbox_firewall_rules runs in this step for a saved Sandbox of a
\* non-static challenge whose user has no active Session
CreatedWithoutSession(w) ==
  /\ AddSandboxFirewallRules(w)
  /\ ~static[proc[w].c]
  /\ ActiveSessionIds(sandboxes[proc[w].sid].user) = {}

\* C16: when a non-static sandbox is created while its user has no active
\* Session, no firewall rule is installed for it (the sets and the map keep
\* their contents) and a packet to any of its ports is accepted from no source
\* address
NoSessionNoAccess ==
  [][\A w \in Workers :
       CreatedWithoutSession(w) =>
         /\ fw'.sandbox_ports = fw.sandbox_ports
         /\ fw'.static_ports = fw.static_ports
         /\ fw'.map = fw.map
         /\ \A port \in SandboxPorts(sandboxes[proc[w].sid]),
               ip \in Ips \cup {Outsider} : ~Accepts(fw', port, ip)]_vars

\* C17: at no point during provisioning is a host port of the container of the
\* attempt accepted by the firewall for some source address while no Sandbox
\* row names that container (volume, container, health-wait, DB insert and
\* firewall come in this order); stated for the sandboxes of non-static
\* challenges and the states in which the table xctf is installed
NotReachableBeforeRecorded ==
  \A w \in Workers, c \in containers :
    ( /\ fw.table
      /\ proc[w].op \in {"goc", "refresh"}
      /\ ~static[proc[w].c]
      /\ proc[w].cid = c.id
      /\ c.running
      /\ \A i \in SandboxIds : sandboxes[i].container_id # c.id )
    => \A k \in DOMAIN c.ports, ip \in Ips \cup {Outsider} :
         ~Accepts(fw, c.ports[k], ip)

\* the worker process whose last call was add_port_ip_mapping(port, ip), the
\* last call of all, calls remove_port_ip_mapping(port, ip) in this step
AddThenRemove(w, port, ip) ==
  /\ proc[w].call = "add_port_ip_mapping"
  /\ proc[w].args = <<port, ip>>
  /\ CallRemovePortIpMapping(w, port, ip)

\* a call of remove_port_ip_mapping leaves sandbox_ports as it is
RemoveKeepsSandboxPorts ==
  \A w \in Workers, port \in ApiPorts, ip \in Ips :
    CallRemovePortIpMapping(w, port, ip) => fw'.sandbox_ports = fw.sandbox_ports

\* C18 as stated: for every prior firewall state, port p and address ip,
\* add_port_ip_mapping(p, ip) followed by remove_port_ip_mapping(p, ip) leaves
\* sandbox_port_to_ip equal to the contents it had before the add, and
\* remove_port_ip_mapping never changes the membership of sandbox_ports
AddRemoveRoundTrip ==
  [][/\ \A w \in Workers, port \in ApiPorts, ip \in Ips :
          AddThenRemove(w, port, ip) => fw'.map = proc[w].prev
      /\ RemoveKeepsSandboxPorts]_vars

\* C18, amended: add_port_ip_mapping(p, ip) followed by
\* remove_port_ip_mapping(p, ip) leaves sandbox_port_to_ip equal to the contents
\* it had before the add without the entry (p, ip), that is, equal to them
\* when (p, ip) was not an entry before; remove_port_ip_mapping never changes
\* the membership of sandbox_ports
AddRemoveDeletesEntry ==
  [][/\ \A w \in Workers, port \in ApiPorts, ip \in Ips :
          AddThenRemove(w, port, ip) =>
            /\ fw'.map = proc[w].prev \ {<<port, ip>>}
            /\ <<port, ip>> \notin proc[w].prev => fw'.map = proc[w].prev
      /\ RemoveKeepsSandboxPorts]_vars

\* remove_port_ip_mapping(p, ip) has just deleted the entry (p, ip) from a map
\* that keeps another entry of p, and p is still in sandbox_ports
AddRemoveWitness ==
  \E w \in Workers, port \in ApiPorts, ip \in Ips :
    /\ proc[w].call = "remove_port_ip_mapping"
    /\ proc[w].args = <<port, ip>>
    /\ proc[w].ret
    /\ <<port, ip>> \in proc[w].prev
    /\ <<port, ip>> \notin fw.map
    /\ \E e \in fw.map : e[1] = port
    /\ port \in fw.sandbox_ports

\* t is s without the whitespace that surrounds it: s is whitespace, t,
\* whitespace, and t neither begins nor ends with whitespace
IsStripOf(t, s) ==
  \E i \in 0..Len(s) :
    /\ i + Len(t) <= Len(s)
    /\ \A k \in 1..Len(t) : s[i + k] = t[k]
    /\ \A k \in 1..Len(s) : (k <= i \/ k > i + Len(t)) => s[k] \in Whitespace
    /\ t # <<>> => t[1] \notin Whitespace /\ t[Len(t)] \notin Whitespace

\* a and b are equal after stripping surrounding whitespace from both
EqualStripped(a, b) ==
  \E i \in 1..(Len(a) + 1), j \in 0..Len(a) :
    IsStripOf(SubSeq(a, i, j), a) /\ IsStripOf(SubSeq(a, i, j), b)

\* the user has a correct Submission on the challenge
HasCorrectSubmission(u, c) ==
  \E i \in 1..Len(submissions) :
    submissions[i] = [user |-> u, challenge |-> c, correct |-> TRUE]

CallsRemoval(w) ==
  \/ \E port \in ApiPorts, ip \in Ips : CallRemovePortIpMapping(w, port, ip)
  \/ \E port \in ApiPorts : CallRemoveStaticPort(w, port)
  \/ \E port \in ApiPorts : CallRemoveSandboxPort(w, port)
  \/ \E port \in ApiPorts, pm \in ApiMappings :
       CallRemoveAllPortMappingsForSandbox(w, port, pm)
  \/ \E active \in SUBSET ApiPorts : CallCleanOrphanPorts(w, active)

\* C20: when the firewall controller of the calling process is not
\* initialized, remove_port_ip_mapping, remove_static_port, remove_sandbox_port,
\* remove_all_port_mappings_for_sandbox and clean_orphan_ports return False
\* without issuing any nft command and leave the sets and the map unchanged
UninitializedRemovalIsNoOp ==
  [][\A w \in Workers :
       ~initialized[w] /\ CallsRemoval(w) =>
         /\ ~proc'[w].ret
         /\ proc'[w].cmds = 0
         /\ fw' = fw]_vars

\* a process whose controller is not initialized has just been refused the
\* removal of the rules of a port that is in sandbox_ports and in the map
UninitializedRemovalWitness ==
  \E w \in Workers :
    /\ ~initialized[w]
    /\ proc[w].call = "remove_all_port_mappings_for_sandbox"
    /\ ~proc[w].ret
    /\ proc[w].args[1] \in fw.sandbox_ports
    /\ \E e \in fw.map : e[1] = proc[w].args[1]

\* the comma-free piece of s from position i to position j, between two commas
\* or the ends of s
IsPiece(s, i, j) ==
  /\ i <= j + 1
  /\ i = 1 \/ s[i - 1] = ","
  /\ j = Len(s) \/ s[j + 1] = ","
  /\ \A k \in i..j : s[k] # ","

\* t is the first comma-separated token of s that is not empty once the
\* whitespace around it is removed
IsFirstNonEmptyToken(t, s) ==
  \E i \in 1..(Len(s) + 1), j \in 0..Len(s) :
    /\ IsPiece(s, i, j)
    /\ t # <<>> /\ IsStripOf(t, SubSeq(s, i, j))
    /\ \A k \in 1..(i - 1) : s[k] \in Whitespace \cup {","}

\* the value ip is the client IP of a request with these headers
IsClientIp(ip, meta) ==
  LET xff == MetaGet(meta, "HTTP_X_FORWARDED_FOR", <<>>)
      real == MetaGet(meta, "HTTP_X_REAL_IP", <<>>)
  IN IF \E k \in 1..Len(xff) : xff[k] \notin Whitespace \cup {","}
     THEN IsFirstNonEmptyToken(ip, xff)
     ELSE IF real # <<>> THEN IsStripOf(ip, real)
     ELSE IF "REMOTE_ADDR" \in DOMAIN meta THEN ip = meta["REMOTE_ADDR"]
     ELSE ip = DefaultIp

\* C21: the client IP of a request is the first non-empty comma-separated
\* token of X-Forwarded-For when there is one, otherwise X-Real-IP (stripped)
\* when present, otherwise the peer address, otherwise 0.0.0.0
ClientIpIsFirstNonEmptyToken ==
  \A w \in Workers :
    proc[w].call \in {"get_client_ip", "FirewallService.get_client_ip"} =>
      IsClientIp(proc[w].out, proc[w].args[1])

\* the worker is inside the provisioning section of get_or_create_sandbox:
\* acquire_lock has returned True and release_lock has not run yet
InProvisioningSection(w) ==
  /\ proc[w].op = "goc"
  /\ proc[w].pc \notin {"goc_fast", "goc_lock", "goc_expire", "done"}

\* C22: at no time are two workers inside the provisioning section of
\* get_or_create_sandbox for the same (challenge, user) key, also when
\* provisioning lasts longer than the TTL of the lock
ProvisioningSectionExclusive ==
  \A v, w \in Workers :
    v # w /\ InProvisioningSection(v) /\ InProvisioningSection(w) =>
      LockName(proc[v].c, proc[v].u) # LockName(proc[w].c, proc[w].u)

\* C23: acquire sets the lock key together with its expiry atomically: in no
\* reachable state, the ones between two Redis commands of a worker included,
\* does a lock key exist without a TTL
LockKeyHasTtl == \A name \in Keys : locks[name].held => locks[name].ttl

\* the get_or_create_sandbox call of the worker returns or raises in this step
GocExits(w) ==
  proc[w].op = "goc" /\ proc[w].pc # "done" /\ proc'[w].pc = "done"

\* the worker has got True from acquire_lock, or its SETNX has succeeded
HasAcquired(w) == InProvisioningSection(w) \/ proc[w].pc = "goc_expire"

\* C24: every get_or_create_sandbox call that acquired the lock has released
\* it by the time it returns or raises (sandbox found on the re-query, sandbox
\* created, provisioning exception): its last step deletes the key and it
\* returns owning no key; a call that returns on the fast path or fails to
\* acquire never deletes the lock key
LockReleasedOnEveryExit ==
  /\ [][\A w \in Workers :
          GocExits(w) =>
            IF HasAcquired(w)
            THEN ~locks'[LockName(proc[w].c, proc[w].u)].held
            ELSE locks' = locks]_vars
  /\ [](\A w \in Workers, name \in Keys :
          proc[w].op = "goc" /\ proc[w].pc = "done" =>
            ~(locks[name].held /\ locks[name].owner = w))

\* a provisioning exception has left get_or_create_sandbox, which had acquired
\* the lock, and the key is gone
LockReleasedWitness ==
  \E w \in Workers :
    /\ proc[w].op = "goc" /\ proc[w].pc = "done"
    /\ proc[w].fresh /\ proc[w].err # "none"
    /\ ~locks[LockName(proc[w].c, proc[w].u)].held

\* the worker arrives at the given step of cleanup_sandbox in this step
Reaches(w, pc) == proc[w].pc # pc /\ proc'[w].pc = pc

\* C25: cleanup_sandbox performs its steps in the order firewall-rule removal,
\* container stop and remove, DB flag, volume cleanup: a row is marked inactive
\* only by a run that has come through the firewall removal and then the
\* container removal, and the run deletes the volume only once the row is
\* inactive
CleanupOrder ==
  [][\A w \in Workers :
       LET p == proc[w]
           s == sandboxes[p.sid] IN
       /\ \A i \in SandboxIds :
            sandboxes[i].active /\ ~sandboxes'[i].active /\ proc'[w] # p =>
              p.pc = "cl_save" /\ p.sid = i
       /\ Reaches(w, "cl_save") =>
            /\ p.pc = "cl_container"
            /\ \A c \in containers' : c.id # s.container_id
            /\ sandboxes' = sandboxes
       /\ Reaches(w, "cl_container") =>
            /\ p.pc = "cl_firewall"
            /\ fw' = RemoveAllPortMappingsForSandbox(fw, initialized[w],
                         s.container_port, s.port_mappings)
            /\ sandboxes' = sandboxes /\ containers' = containers
       /\ Reaches(w, "cl_volume") =>
            p.pc = "cl_save" /\ ~sandboxes'[p.sid].active /\ volumes' = volumes
       /\ p.pc \in {"cl_firewall", "cl_container", "cl_save"} /\ proc'[w] # p =>
            volumes' = volumes
       /\ p.pc = "cl_volume" /\ proc'[w] # p =>
            /\ ~s.active
            /\ volumes' = [volumes EXCEPT ![VolumeKey(s.challenge, s.user)] =
                             CleanUpVolume(@)]]_vars

\* a cleanup_sandbox task has returned: the row is inactive, the container and
\* the volume are gone
CleanupOrderWitness ==
  \E w \in Workers :
    /\ proc[w].op = "cleanup" /\ proc[w].pc = "done"
    /\ ~sandboxes[proc[w].sid].active
    /\ \A c \in containers : c.id # sandboxes[proc[w].sid].container_id
    /\ ~volumes[VolumeKey(proc[w].c, proc[w].u)].file

\* C26: for every challenge the container ports requested at container
\* creation are {8000} united with challenge.tcp_ports, so that for any
\* tcp_ports list, one without 8000 included, a healthy container yields the
\* mandatory 8000/tcp mapping and provisioning does not raise for its lack
RequestedPortsIncludePrimary ==
  /\ \A c \in containers :
       DOMAIN c.ports =
         {8000} \cup {tcp_ports[c.name[1]][i] : i \in 1..Len(tcp_ports[c.name[1]])}
  /\ \A w \in Workers : proc[w].err # "value"

\* the sandboxes that are active on the challenge
ActiveOn(c) == {i \in SandboxIds : sandboxes[i].active /\ sandboxes[i].challenge = c}

\* C27: refresh_sandboxes(name) cleans up every Sandbox that is active on the
\* challenge and afterwards recreates one for the same user only if the
\* challenge is still active; for a challenge that is inactive the active
\* sandboxes are still cleaned up (none stays active without a cleanup queued
\* or under way when the task returns) and none is recreated
RefreshCleansAndRecreates ==
  [][\A w \in Workers :
       LET p == proc[w] IN
       /\ (\E c \in AllChallenges : RefreshInactive(w, c)) =>
            /\ \A i \in ActiveOn(proc'[w].args[1]) : CleanupUnderWay(i)
            /\ sandboxes' = sandboxes
       /\ p.op = "refresh" /\ Reaches(w, "cs_volume") => ~sandboxes'[p.sid].active
       /\ p.op = "refresh" /\ proc'[w] # p /\ Len(sandboxes') > Len(sandboxes) =>
            /\ challenge_active[p.c]
            /\ sandboxes'[Len(sandboxes')].user = p.u
            /\ sandboxes'[Len(sandboxes')].challenge = p.c]_vars

\* C28: in refresh_sandboxes a failure while cleaning up or recreating one
\* sandbox does not stop the batch: after a failed recreation the loop goes on
\* with the next listed sandbox, and when the task ends every listed Sandbox
\* other than one whose own cleanup failed has been cleaned up
RefreshBatchContinues ==
  [][\A w \in Workers :
       LET p == proc[w] IN
       /\ /\ p.op = "refresh"
          /\ p.pc \in {"cs_volume", "cs_container", "cs_rollback"}
          /\ proc'[w] # p /\ proc'[w].pc \notin {"cs_container", "cs_save", "cs_rollback"}
          /\ Len(p.todo) > 1
          => proc'[w].pc = "cl_firewall" /\ proc'[w].sid = p.todo[2]
       /\ p.op = "refresh" /\ Reaches(w, "done") =>
            \A i \in p.snap :
              sandboxes'[i].active => proc'[w].err = "db" /\ p.sid = i]_vars

\* the sandboxes that are active and belong to the user
ActiveOf(u) == {i \in SandboxIds : sandboxes[i].active /\ sandboxes[i].user = u}

\* C29: saving a Challenge whose stored row is active with active=false
\* enqueues cleanup_sandbox for every Sandbox on that challenge that is active
\* at that moment plus one broadcast notification; saving a User whose stored
\* row is unbanned with banned=true enqueues cleanup_sandbox for every active
\* Sandbox of that user; a save without such a transition, or of a new row,
\* enqueues nothing
SaveSignalsEnqueueCleanups ==
  [][\A w \in Workers, value \in BOOLEAN :
       /\ \A c \in AllChallenges \cup {None} :
            SaveChallenge(w, c, value) =>
              IF c # None /\ challenge_active[c] /\ ~value
              THEN /\ \A i \in SandboxIds :
                        queue'[i] = queue[i] + (IF i \in ActiveOn(c) THEN 1 ELSE 0)
                   /\ proc'[w].sent = 1
              ELSE queue' = queue /\ proc'[w].sent = 0
       /\ \A u \in AllUsers \cup {None} :
            SaveUser(w, u, value) =>
              IF u # None /\ ~user_banned[u] /\ value
              THEN /\ \A i \in SandboxIds :
                        queue'[i] = queue[i] + (IF i \in ActiveOf(u) THEN 1 ELSE 0)
                   /\ proc'[w].sent = 0
              ELSE queue' = queue /\ proc'[w].sent = 0]_vars

\* a Challenge with two active sandboxes has just been deactivated: both
\* cleanups are queued and one notification was sent
SaveSignalsWitness ==
  \E w \in Workers :
    /\ proc[w].call = "Challenge.save"
    /\ proc[w].args[1] # None /\ ~proc[w].args[2]
    /\ Cardinality(proc[w].enq) = 2
    /\ \A i \in proc[w].enq : queue[i] > 0 /\ sandboxes[i].active
    /\ proc[w].sent = 1

\* C30: every Session that is active with expires_at <= now is set inactive by
\* the next run of cleanup_expired_sessions, and after that run no
\* sandbox_port_to_ip entry remains for any port of that user's active
\* non-static sandboxes, while the firewall entries of static sandboxes are
\* untouched by the run
ExpiredSessionsCleaned ==
  [][\A w \in Workers :
       LET p == proc[w] IN
       /\ p.op = "expire" /\ Reaches(w, "done") =>
            \A s \in p.snap :
              /\ ~sessions'[s].active
              /\ \A i \in ActiveOf(sessions[s].user) :
                   ~static[sandboxes[i].challenge] =>
                     \A e \in fw'.map : e[1] \notin SandboxPorts(sandboxes[i])
       /\ p.op = "expire" /\ proc'[w] # p =>
            \A i \in SandboxIds :
              sandboxes[i].active /\ static[sandboxes[i].challenge] =>
                \A port \in SandboxPorts(sandboxes[i]) :
                  /\ port \in fw.static_ports <=> port \in fw'.static_ports
                  /\ port \in fw.sandbox_ports <=> port \in fw'.sandbox_ports
                  /\ {e \in fw.map : e[1] = port} = {e \in fw'.map : e[1] = port}]_vars

\* C31: after the cold-start rebuild completes, sandbox_port_to_ip contains
\* (port, session.ip) for every active Session and every port of that user's
\* active non-static sandboxes, static_ports contains every port of every
\* active static sandbox, and the concluding orphan sweep has removed from
\* sandbox_ports no port that belongs to an active Sandbox, the active
\* non-static sandboxes whose owner has no active Session included
RebuildPostcondition ==
  [][\A w \in Workers :
       Ready(w) =>
         /\ \A j \in SessionIds, i \in SandboxIds :
              /\ sessions[j].active /\ sandboxes[i].active
              /\ sandboxes[i].user = sessions[j].user
              /\ ~static[sandboxes[i].challenge]
              => \A port \in SandboxPorts(sandboxes[i]) :
                   <<port, sessions[j].ip>> \in fw'.map
         /\ \A i \in SandboxIds :
              sandboxes[i].active /\ static[sandboxes[i].challenge] =>
                SandboxPorts(sandboxes[i]) \subseteq fw'.static_ports
         /\ \A i \in SandboxIds :
              sandboxes[i].active =>
                \A port \in SandboxPorts(sandboxes[i]) :
                  port \in fw.sandbox_ports => port \in fw'.sandbox_ports]_vars

\* C32: each run of destroy_non_static_sandboxes enqueues cleanup for exactly
\* the active non-static Sandboxes whose owner has a correct Submission on the
\* sandbox's challenge or whose created_at is at least 2 hours old; it never
\* enqueues a static sandbox, an inactive sandbox, or an unsolved sandbox
\* younger than 2 hours
ReaperSelection ==
  [][\A w \in Workers :
       DestroyNonStaticSandboxes(w) =>
         \A i \in DOMAIN queue :
           LET due == /\ i \in SandboxIds
                      /\ sandboxes[i].active
                      /\ ~static[sandboxes[i].challenge]
                      /\ \/ HasCorrectSubmission(sandboxes[i].user,
                                                 sandboxes[i].challenge)
                         \/ i <= agedUpTo'
           IN queue'[i] = queue[i] + (IF due THEN 1 ELSE 0)]_vars

\* a run of the reaper has enqueued a solved sandbox younger than 2 hours
ReaperSelectionWitness ==
  \E i \in SandboxIds :
    /\ sandboxes[i].active /\ ~static[sandboxes[i].challenge]
    /\ HasCorrectSubmission(sandboxes[i].user, sandboxes[i].challenge)
    /\ i > agedUpTo /\ queue[i] > 0

\* ---------------------------------------------------------------------- C33
\* C33: a request of a non-admin user from an address without an active
\* Session of the user, while the user has an active Session elsewhere, is
\* handled as an IP mismatch: the accept entries of (port, old_ip) for the ports
\* of the user's active non-static sandboxes are removed, the old Session ends
\* inactive whether or not the firewall step failed, the request is redirected
\* to login, and no accept entry of the requesting address appears; a request
\* of an admin passes without touching sessions or firewall
IpMismatchLogout ==
  [][\A w \in Workers :
       LET p == proc[w] IN
       /\ \A u \in AllUsers, ip \in Ips :
            ProcessRequest(w, u, ip) =>
              /\ is_admin[u] /\ ~user_banned[u] =>
                   /\ proc'[w].op = "request" /\ proc'[w].msg = "pass"
                   /\ sessions' = sessions /\ fw' = fw
              /\ /\ ~is_admin[u] /\ ~user_banned[u]
                 /\ ActiveSessionIds(u) # {}
                 /\ \A i \in ActiveSessionIds(u) : sessions[i].ip # ip
                 => /\ proc'[w].op = "mismatch"
                    /\ proc'[w].sess \in ActiveSessionIds(u)
                    /\ proc'[w].old_ip = sessions[proc'[w].sess].ip
       /\ p.op = "mismatch" /\ proc'[w] # p =>
            /\ \A e \in fw'.map \ fw.map : e[2] # p.ip
            /\ p.pc = "mm_firewall" /\ proc'[w].err = "none" =>
                 \A port \in NonStaticPorts(UserSandboxIds(p.u)) :
                   <<port, p.old_ip>> \notin fw'.map
            /\ Reaches(w, "done") =>
                 /\ ~sessions'[p.sess].active
                 /\ proc'[w].msg = "redirect:login"]_vars

\* an IP-mismatch request has removed accept entries of the old address and
\* has set the old session inactive
IpMismatchWitness ==
  \E w \in Workers :
    /\ proc[w].op = "mismatch" /\ proc[w].pc = "done"
    /\ proc[w].prev # {} /\ proc[w].prev \cap fw.map = {}
    /\ ~sessions[proc[w].sess].active

\* ---------------------------------------------------------------------- C34
\* C34: every run of cleanup_sandbox on an existing Sandbox ends with the row
\* inactive, whatever it found: the container unknown to the runtime, a
\* firewall removal that did nothing, the volume already gone; a run on an id
\* without row changes no table, no container, no volume and no firewall state
CleanupTolerant ==
  [][\A w \in Workers :
       /\ proc[w].op = "cleanup" /\ Reaches(w, "done") =>
            ~sandboxes'[proc[w].sid].active
       /\ \A sid \in 1..MaxSandboxes :
            CallCleanupSandbox(w, sid) /\ sid \notin SandboxIds =>
              /\ proc'[w].op = "idle"
              /\ UNCHANGED <<sandboxes, sessions, containers, volumes, fw,
                             initialized, queue, locks>>]_vars

\* two runs of cleanup_sandbox on the same Sandbox have both returned, one of
\* them in a process whose firewall controller was never initialized: the
\* later one found neither container nor volume
CleanupTolerantWitness ==
  \E w, v \in Workers :
    /\ w # v
    /\ proc[w].op = "cleanup" /\ proc[w].pc = "done"
    /\ proc[v].op = "cleanup" /\ proc[v].pc = "done"
    /\ proc[w].sid = proc[v].sid
    /\ ~initialized[v]
    /\ ~sandboxes[proc[w].sid].active
    /\ ~Running(sandboxes[proc[w].sid].container_id)

\* ---------------------------------------------------------------------- C35
\* C35: the Sandbox table only grows, and a row only ever changes by active
\* going from true to false: no step removes a row, sets active back to true,
\* or alters container_id, container_port, port_mappings, challenge or user
SandboxRowsAppendOnly ==
  [][/\ Len(sandboxes') >= Len(sandboxes)
     /\ \A i \in SandboxIds :
          \/ sandboxes'[i] = sandboxes[i]
          \/ /\ sandboxes[i].active
             /\ sandboxes'[i] = [sandboxes[i] EXCEPT !.active = FALSE]]_vars

\* a Sandbox was deactivated and a later row was inserted after it
SandboxRowsWitness ==
  \E i, j \in SandboxIds :
    /\ i < j
    /\ ~sandboxes[i].active /\ sandboxes[i].container_id # 0
    /\ sandboxes[j].active

\* ---------------------------------------------------------------------- C36
\* the worker repeats the call it made last, with the same arguments
Repeats(w, call, args) == proc[w].call = call /\ proc[w].args = args

\* what a second application in succession and an application to a present
\* (add) or absent (remove) element must do: the repetition changes neither
\* sets nor map, and the call reports success whenever ok holds
Idempotent(w, call, args, redundant, ok) ==
  /\ Repeats(w, call, args) => fw' = fw
  /\ redundant /\ ok => proc'[w].ret

MutationsIdempotent(removalOk(_)) ==
  \A w \in Workers, port \in ApiPorts :
    /\ \A ip \in Ips :
         /\ CallAddPortIpMapping(w, port, ip) =>
              Idempotent(w, "add_port_ip_mapping", <<port, ip>>,
                         <<port, ip>> \in fw.map, TRUE)
         /\ CallRemovePortIpMapping(w, port, ip) =>
              Idempotent(w, "remove_port_ip_mapping", <<port, ip>>,
                         <<port, ip>> \notin fw.map, removalOk(w))
    /\ CallAddStaticPort(w, port) =>
         Idempotent(w, "add_static_port", <<port>>,
                    port \in fw.static_ports, TRUE)
    /\ CallRemoveStaticPort(w, port) =>
         Idempotent(w, "remove_static_port", <<port>>,
                    port \notin fw.static_ports, removalOk(w))
    /\ CallRemoveSandboxPort(w, port) =>
         Idempotent(w, "remove_sandbox_port", <<port>>,
                    port \notin fw.sandbox_ports, removalOk(w))

Always(w) == TRUE
IsInitialized(w) == initialized[w]

\* C36 as stated: each of the five mutations, applied a second time in
\* succession, leaves sets and map as the first application left them, and
\* adding a present element or removing an absent one returns True
FirewallMutationsIdempotent == [][MutationsIdempotent(Always)]_vars

\* C36, amended: the same, the removal of an absent element returning True in
\* a process whose controller is initialized (in any other it returns False)
FirewallMutationsIdempotentInitialized ==
  [][/\ MutationsIdempotent(IsInitialized)
     /\ \A w \in Workers :
          /\ proc'[w] # proc[w]
          /\ proc'[w].call \in {"remove_port_ip_mapping", "remove_static_port",
                                "remove_sandbox_port"}
          => proc'[w].ret = initialized[w]]_vars

\* remove_port_ip_mapping of an entry that was absent from a map holding
\* another entry has returned True and has left the map as it was
FirewallMutationsWitness ==
  \E w \in Workers :
    /\ proc[w].call = "remove_port_ip_mapping" /\ proc[w].ret
    /\ <<proc[w].args[1], proc[w].args[2]>> \notin proc[w].prev
    /\ fw.map = proc[w].prev /\ fw.map # {}

\* ---------------------------------------------------------------------- C37
\* C37: release_lock executed by a worker never deletes a lock key that a
\* different worker holds at that moment (having acquired the name after the
\* TTL of the first worker's key ran out)
ReleaseOnlyOwnLock ==
  [][\A w \in Workers :
       ReleaseLock(w) =>
         LET name == LockName(proc[w].c, proc[w].u) IN
         locks[name].held => locks[name].owner = w]_vars

\* ---------------------------------------------------------------------- C38
\* C38: when a challenge is inactive, no cleanup task is queued and no worker
\* is in a handler or task, no Sandbox on the challenge is active: this
\* includes a sandbox whose start request read the challenge as active before
\* the deactivation and saved its row after it
DeactivatedChallengeHasNoSandbox ==
  \A c \in AllChallenges :
    /\ ~challenge_active[c]
    /\ \A w \in Workers : Idle(w)
    /\ \A i \in DOMAIN queue : queue[i] = 0
    => ActiveOn(c) = {}

\* ---------------------------------------------------------------------- C39
\* C39: in every reachable state each key (port, ip) of sandbox_port_to_ip
\* has its port in sandbox_ports, so that no accept entry belongs to a port
\* which rule 1 of the chains accepts from every source
MapPortsAreSandboxPorts == \A e \in fw.map : e[1] \in fw.sandbox_ports

\* ---------------------------------------------------------------------- C40
\* C40: whenever a process has its firewall controller marked initialized,
\* table xctf exists with the map, both sets and both chains with their four
\* rules each, also after an initialize_firewall call that failed part-way
\* through the creation and a second call
InitializedMeansComplete ==
  \A w \in Workers :
    initialized[w] => fw.table /\ fw.created = CreationCommands

====
